---- MODULE Spec2Model ----
(***************************************************************************)
(* sqlite-wasm-easy: the controller (class SQLiteWASM, main thread), the   *)
(* executor (sqliteWorker.ts, a Web Worker) and the message channel        *)
(* between them.                                                           *)
(*                                                                         *)
(* Scheduling.  Both sides are single-threaded event loops.  A task (a     *)
(* message event, the resumption of a suspended handler, a call made by    *)
(* the application) runs to its next real suspension, and the microtasks   *)
(* it queues run before the next message event is dispatched.  An `await`  *)
(* of a value the engine computes synchronously (db.exec, db.close,        *)
(* exportFile of the pool) only costs microtasks, so the handler stays     *)
(* atomic; an `await` of real asynchronous work (the dynamic import, the   *)
(* module factory, installOpfsSAHPoolVfs, wipeFiles, sqlite3.opfs.importDb)*)
(* suspends the handler and lets the worker take its next message.         *)
(***************************************************************************)
EXTENDS Integers, Sequences, FiniteSets, TLC

\* ---------------------------------------------------------------- bounds
MaxCalls == 3          \* calls the application makes on the controller
MaxTxCalls == 2        \* the same, where the calls include transactions
MaxBody == 1           \* statements a transaction body issues through tx
MaxRows == 2           \* rows the engine produces for one query
MaxText == 4           \* characters of a text cell

VARIABLES
    vfsType,           \* config.vfs.type after mergeConfig
    envOk,             \* the browser offers the storage backend asked for
    pragma,            \* config.pragma after mergeConfig, in insertion order
    logging,           \* config.logging after mergeConfig
    worker,            \* SQLiteWASM.worker: 0 = null, else the Worker
    messageId,         \* SQLiteWASM.messageId
    pendingRequests,   \* SQLiteWASM.pendingRequests: id -> promise
    isReady,           \* SQLiteWASM.isReady
    readyPromise,      \* SQLiteWASM.readyPromise: 0 = null, else the promise
    promises,          \* the promises sendMessage created
    rps,               \* the promises initialize() returned
    calls,             \* the application's calls and where each stands
    workers,           \* every Worker created: module state, inbox, handlers
    respQ,             \* responses posted to the controller, not yet delivered
    disk,              \* rows persisted in the origin private file system
    sent,              \* history: every message posted, by promise
    emitted,           \* the rows the engine handed to querySQL's callback
    results            \* querySQL's results array

vars == <<vfsType, envOk, pragma, logging, worker, messageId, pendingRequests, isReady,
          readyPromise, promises, rps, calls, workers, respQ, disk, sent,
          emitted, results>>

VFSTypes == {"opfs-sahpool", "opfs", "memdb"}

\* ------------------------------------------------------- configuration
DEFAULT_VFS_TYPE == "opfs"

\* mergeConfig: vfs.type is the user's, or the default when omitted ("").
MergedVfsType(userType) == IF userType = "" THEN DEFAULT_VFS_TYPE ELSE userType

DEFAULT_PRAGMA_CONFIG ==
    <<[key |-> "journal_mode", value |-> "WAL"],
      [key |-> "synchronous", value |-> "NORMAL"],
      [key |-> "temp_store", value |-> "MEMORY"]>>

\* The keys of DEFAULT_PRAGMA_CONFIG, in insertion order.
DEFAULT_PRAGMA_KEYS == <<"journal_mode", "synchronous", "temp_store">>

\* mergeConfig: { ...DEFAULT_PRAGMA_CONFIG, ...userConfig.pragma }.  A key of
\* the defaults keeps its place and takes the user's value; the user's other
\* keys follow in the user's order.
MergedPragma(user) ==
    LET D == DEFAULT_PRAGMA_CONFIG
        over(e) == {j \in DOMAIN user : user[j].key = e.key}
        kept == [k \in DOMAIN D |->
                   IF over(D[k]) = {} THEN D[k]
                   ELSE user[CHOOSE j \in over(D[k]) : TRUE]]
        isNew(e) == \A k \in DOMAIN D : D[k].key # e.key
    IN kept \o SelectSeq(user, isNew)

\* config.filename, the name the application gave its database.
ConfigFilename == "app.db"

\* A JavaScript function, named by what it is bound to.
Functions == {"console.log", "console.error", "userPrint", "userPrintErr"}

DEFAULT_LOGGING_CONFIG ==
    [filterSqlTrace |-> "true", print |-> "console.log",
     printErr |-> "console.error"]

\* mergeConfig: each logging field is the user's, or the default when it is
\* omitted ("undefined").
MergedLogging(user) ==
    [f \in DOMAIN DEFAULT_LOGGING_CONFIG |->
        IF user[f] = "undefined" THEN DEFAULT_LOGGING_CONFIG[f] ELSE user[f]]

\* The logging settings an application may pass.
UserLoggings ==
    [filterSqlTrace : {"undefined", "false"}, print : {"undefined", "userPrint"},
     printErr : {"undefined", "userPrintErr"}]

\* Mutant of serializableConfig: the whole logging object is sent.
serializableConfigWithCallbacks(lg) == {<<f, lg[f]>> : f \in DOMAIN lg}

\* initialize: the logging part of the configuration sent with init, as its
\* fields and their values.  (vfs and pragma reach the executor as vfsType
\* and pragma.)
serializableConfig(lg) == {<<"filterSqlTrace", lg.filterSqlTrace>>}

\* The pragma settings an application may pass: none; a new one the engine
\* rejects; a default replaced by a value the engine rejects; a default
\* switched off together with a new one.
UserPragmas ==
    {<<>>,
     <<[key |-> "cache_size", value |-> "1 2"]>>,
     <<[key |-> "synchronous", value |-> "1 2"]>>,
     <<[key |-> "synchronous", value |-> "undefined"],
       [key |-> "foreign_keys", value |-> "ON"]>>}

\* -------------------------------------------------------------- engine
\* The connection handle `db`.  rows: rows of the one table as this
\* connection sees them; snap: rows at BEGIN (what ROLLBACK restores).
NoDb == [open |-> FALSE, rows |-> 0, inTx |-> FALSE, snap |-> 0,
         changes |-> 0, lastId |-> 0, pragmas |-> <<>>]

Persistent(vt) == vt # "memdb"

\* What remains on disk when a statement leaves the connection in state d.
Committed(vt, d, old) ==
    IF ~Persistent(vt) THEN old ELSE IF d.inTx THEN old ELSE d.rows

\* db.exec({sql}) on an open connection: [db, err, out].
EngineExec(d, sql) ==
    CASE sql = "BEGIN IMMEDIATE" ->
           IF d.inTx
           THEN [db |-> d, out |-> <<>>,
                 err |-> "cannot start a transaction within a transaction"]
           ELSE [db |-> [d EXCEPT !.inTx = TRUE, !.snap = d.rows],
                 out |-> <<>>, err |-> ""]
      [] sql = "COMMIT" ->
           IF ~d.inTx
           THEN [db |-> d, out |-> <<>>,
                 err |-> "cannot commit - no transaction is active"]
           ELSE [db |-> [d EXCEPT !.inTx = FALSE], out |-> <<>>, err |-> ""]
      [] sql = "ROLLBACK" ->
           IF ~d.inTx
           THEN [db |-> d, out |-> <<>>,
                 err |-> "cannot rollback - no transaction is active"]
           ELSE [db |-> [d EXCEPT !.inTx = FALSE, !.rows = d.snap],
                 out |-> <<>>, err |-> ""]
      [] sql = "INSERT" ->
           [db |-> [d EXCEPT !.rows = d.rows + 1, !.changes = 1,
                             !.lastId = d.rows + 1],
            out |-> <<>>, err |-> ""]
      [] sql = "SELECT 1" -> [db |-> d, out |-> <<1>>, err |-> ""]
      [] sql = "SELECT 2" -> [db |-> d, out |-> <<2>>, err |-> ""]
      [] sql = "SELECT COUNT" -> [db |-> d, out |-> <<d.rows>>, err |-> ""]
      [] OTHER -> [db |-> d, out |-> <<>>, err |-> "SQL logic error"]

PragmaSyntaxError == "near \"2\": syntax error"

\* db.exec of `PRAGMA key = value`: [db, err].
EnginePragma(d, e) ==
    IF e.value = "1 2" THEN [db |-> d, err |-> PragmaSyntaxError]
    ELSE [db |-> [d EXCEPT !.pragmas = Append(@, e.key)], err |-> ""]

\* ------------------------------------------------------------ executor
\* The module-scope state of one worker, its inbox and its suspended
\* handlers.
FreshWorker ==
    [alive |-> TRUE, sqlite3InitModule |-> FALSE, sqlite3 |-> FALSE,
     PoolUtil |-> "null", db |-> NoDb, currentConfig |-> FALSE,
     print |-> "null", printErr |-> "null",
     inbox |-> <<>>, handlers |-> {}]

DeadWorker == [FreshWorker EXCEPT !.alive = FALSE]

\* Capabilities of the backend handle (probed with ?. by the code).
HasExportFile(pu) == pu = "opfs-sahpool"
HasImportDb(pu) == pu \in {"opfs-sahpool", "opfs"}
HasWipeFiles(pu) == pu = "opfs-sahpool"

Success(id, rs) ==
    [id |-> id, status |-> "success", results |-> rs, error |-> ""]
ReadyResp(id) ==
    [id |-> id, status |-> "ready", results |-> <<>>, error |-> ""]
\* Mutant of ErrorResp: the error response does not carry the request's id.
ErrorRespWithoutId(id, msg) ==
    [id |-> 0, status |-> "error", results |-> <<>>, error |-> msg]

ErrorResp(id, msg) ==
    [id |-> id, status |-> "error", results |-> <<>>, error |-> msg]

\* The result of running a handler up to its next suspension: the worker's
\* state, the disk, and the response posted (none while suspended).
Posted(ws, dk, resp) == [ws |-> ws, disk |-> dk, resp |-> <<resp>>]
Suspended(ws, dk, m, at) ==
    [ws |-> [ws EXCEPT !.handlers =
                 @ \cup {[id |-> m.id, operation |-> m.operation, at |-> at,
                          data |-> m.data]}],
     disk |-> dk, resp |-> <<>>]

\* currentConfig?.vfs?.type || 'opfs'
ConfigVfsType(ws, vt) == IF ws.currentConfig THEN vt ELSE "opfs"

TypeErrorNull == "Cannot read properties of null"
OpfsUnavailable == "OPFS VFS is not available"
NotOpened == "Database not opened"

\* initDatabase up to its first await: the configuration is stored before
\* the engine module is imported.
initDatabase(ws, dk, m) ==
    Suspended([ws EXCEPT !.currentConfig = TRUE], dk, m, "import")

\* initDatabase from the await it was suspended at (h.at) to the next one,
\* or to the 'ready' response.
initDatabaseResume(ws, dk, vt, ok, h) ==
    CASE h.at = "import" ->
           Suspended([ws EXCEPT !.sqlite3InitModule = TRUE], dk, h, "module")
      [] h.at = "module" ->
           LET w1 == [ws EXCEPT !.sqlite3 = TRUE, !.print = "console.log",
                                !.printErr = "console.error"] IN
           IF vt = "opfs-sahpool" THEN Suspended(w1, dk, h, "vfs")
           ELSE IF vt = "opfs"
           THEN Posted([w1 EXCEPT !.PoolUtil = IF ok THEN "opfs" ELSE "null"],
                       dk, ReadyResp(h.id))
           ELSE Posted([w1 EXCEPT !.PoolUtil = "null"], dk, ReadyResp(h.id))
      [] OTHER ->
           IF ok
           THEN Posted([ws EXCEPT !.PoolUtil = "opfs-sahpool"], dk,
                       ReadyResp(h.id))
           ELSE Posted(ws, dk, ErrorResp(h.id, "installOpfsSAHPoolVfs failed"))

\* The connection `new ...Db(filename)` returns: the stored rows, no pragma
\* applied yet.
Opened(ws, dk, cvt) ==
    [NoDb EXCEPT !.open = TRUE,
                 !.rows = IF Persistent(cvt) THEN dk ELSE 0]

\* currentConfig?.pragma
ConfigPragma(ws, pg) == IF ws.currentConfig THEN pg ELSE <<>>

\* Mutant of ApplyPragmas: a failure is remembered and the loop goes on.
RECURSIVE ApplyPragmasContinuing(_, _)
ApplyPragmasContinuing(d, ps) ==
    IF ps = <<>> THEN [db |-> d, err |-> ""]
    ELSE IF Head(ps).value = "undefined" THEN ApplyPragmasContinuing(d, Tail(ps))
    ELSE LET r == EnginePragma(d, Head(ps))
             rest == ApplyPragmasContinuing(r.db, Tail(ps))
         IN IF r.err # "" THEN [db |-> rest.db, err |-> r.err] ELSE rest

\* The loop over Object.entries(currentConfig.pragma): every entry whose value
\* is not undefined goes through execSQL, in order; the first failure throws
\* out of the loop.
RECURSIVE ApplyPragmas(_, _)
ApplyPragmas(d, ps) ==
    IF ps = <<>> THEN [db |-> d, err |-> ""]
    ELSE IF Head(ps).value = "undefined" THEN ApplyPragmas(d, Tail(ps))
    ELSE LET r == EnginePragma(d, Head(ps))
         IN IF r.err # "" THEN r ELSE ApplyPragmas(r.db, Tail(ps))

\* openDatabase once `db` is assigned: the pragmas, then the response.  When a
\* pragma fails the connection stays assigned.
openWithPragmas(ws, dk, cvt, pg, m) ==
    LET r == ApplyPragmas(Opened(ws, dk, cvt), ConfigPragma(ws, pg))
    IN Posted([ws EXCEPT !.db = r.db], dk,
              IF r.err = "" THEN Success(m.id, <<>>) ELSE ErrorResp(m.id, r.err))

\* Mutant of openDatabase: a connection is opened whether or not one is held.
openDatabaseUnguarded(ws, dk, vt, pg, ok, m) ==
    LET cvt == ConfigVfsType(ws, vt) IN
    IF cvt = "opfs-sahpool" /\ ws.PoolUtil # "null"
    THEN openWithPragmas(ws, dk, cvt, pg, m)
    ELSE IF ~ws.sqlite3 THEN Posted(ws, dk, ErrorResp(m.id, TypeErrorNull))
    ELSE IF cvt = "memdb" THEN openWithPragmas(ws, dk, cvt, pg, m)
    ELSE IF ~ok THEN Posted(ws, dk, ErrorResp(m.id, OpfsUnavailable))
    ELSE openWithPragmas(ws, dk, cvt, pg, m)

openDatabase(ws, dk, vt, pg, ok, m) ==
    LET cvt == ConfigVfsType(ws, vt) IN
    IF ws.db.open THEN Posted(ws, dk, ErrorResp(m.id, "Database already opened"))
    ELSE IF cvt = "opfs-sahpool" /\ ws.PoolUtil # "null"
    THEN openWithPragmas(ws, dk, cvt, pg, m)
    ELSE IF ~ws.sqlite3 THEN Posted(ws, dk, ErrorResp(m.id, TypeErrorNull))
    ELSE IF cvt = "memdb" THEN openWithPragmas(ws, dk, cvt, pg, m)
    ELSE IF ~ok THEN Posted(ws, dk, ErrorResp(m.id, OpfsUnavailable))
    ELSE openWithPragmas(ws, dk, cvt, pg, m)

\* Mutant of closeDatabase: the handles and the configuration are cleared,
\* the connection is kept.
closeDatabaseKeepingConnection(ws, dk, m) ==
    IF ~ws.db.open THEN Posted(ws, dk, ErrorResp(m.id, NotOpened))
    ELSE Posted([ws EXCEPT !.PoolUtil = "null", !.sqlite3 = FALSE,
                           !.sqlite3InitModule = FALSE, !.currentConfig = FALSE],
                dk, Success(m.id, <<>>))

closeDatabase(ws, dk, m) ==
    IF ~ws.db.open THEN Posted(ws, dk, ErrorResp(m.id, NotOpened))
    ELSE Posted([ws EXCEPT !.db = NoDb, !.PoolUtil = "null", !.sqlite3 = FALSE,
                           !.sqlite3InitModule = FALSE, !.currentConfig = FALSE],
                dk, Success(m.id, <<>>))

\* execSQL, querySQL and runSQL share the guard and the db.exec call; they
\* differ in what they return.
\* `db.changes`: on the engine's connection object `changes` is a method, and
\* the code reads it without calling it, so the value read is the function
\* itself, whatever count the engine holds (d.changes).
dbChanges(d) == [type |-> "function", n |-> 0]

\* Number(v): NaN for anything that is not a number.
JsNumber(v) ==
    IF v.type = "number" THEN [nan |-> FALSE, n |-> v.n]
    ELSE [nan |-> TRUE, n |-> 0]

\* `x || 0`: NaN and 0 are falsy.
OrZero(x) == IF x.nan \/ x.n = 0 THEN 0 ELSE x.n

\* const changesCount = Number(db.changes) || 0;
changesCount(d) == OrZero(JsNumber(dbChanges(d)))

\* JSON.parse of a text over the characters [ ] { }: [ok, value].  Such a
\* text is valid JSON exactly when it is `[]`, `{}`, or `[` a valid text `]`
\* (there is no comma to separate two elements and no quote to start a key).
RECURSIVE JSONParse(_)
JSONParse(text) ==
    IF text = <<"[", "]">> THEN [ok |-> TRUE, value |-> [type |-> "array", items |-> <<>>]]
    ELSE IF text = <<"{", "}">> THEN [ok |-> TRUE, value |-> [type |-> "object"]]
    ELSE IF Len(text) >= 3 /\ text[1] = "[" /\ text[Len(text)] = "]"
    THEN LET inner == JSONParse(SubSeq(text, 2, Len(text) - 1))
         IN IF inner.ok
            THEN [ok |-> TRUE,
                  value |-> [type |-> "array", items |-> <<inner.value>>]]
            ELSE [ok |-> FALSE, value |-> <<>>]
    ELSE [ok |-> FALSE, value |-> <<>>]

\* value.startsWith(prefix), prefix one character
startsWith(text, prefix) == Len(text) >= 1 /\ text[1] = prefix

\* Mutant of cellValue: the cell is stored as the engine produced it.
cellValueUnparsed(value) == value

\* What the callback of querySQL stores for one cell.
cellValue(value) ==
    IF value.type = "string"
       /\ (startsWith(value.text, "{") \/ startsWith(value.text, "["))
    THEN IF JSONParse(value.text).ok THEN JSONParse(value.text).value
         ELSE value
    ELSE value

\* The callback's loop over the columns: rowObject[columns[i]] is assigned
\* for i = 0, 1, ..., so the last column of a name gives the name's value.
rowObject(columns, row) ==
    [c \in {columns[i] : i \in DOMAIN columns} |->
        LET last == CHOOSE i \in DOMAIN columns :
                       /\ columns[i] = c
                       /\ \A j \in DOMAIN columns : columns[j] = c => j <= i
        IN cellValue(row[last])]

\* querySQL: the callback pushes one rowObject per row, in the order the
\* engine calls it.
RECURSIVE querySQL(_, _)
querySQL(columns, rows) ==
    IF rows = <<>> THEN <<>>
    ELSE <<rowObject(columns, Head(rows))>> \o querySQL(columns, Tail(rows))

\* { lastInsertRowId, changes }: <<changes, lastInsertRowId>>, or <<changes>>
\* when lastInsertRowId is undefined.
RunResult(d) ==
    IF changesCount(d) > 0 THEN <<changesCount(d), d.lastId>>
    ELSE <<changesCount(d)>>

ResultsOf(op, r) ==
    IF op = "query" THEN r.out
    ELSE IF op = "run" THEN RunResult(r.db)
    ELSE <<>>

\* Mutant of execSQL: the catch reports its own text for an engine failure.
execSQLOwnMessage(ws, dk, vt, m) ==
    IF ~ws.db.open THEN Posted(ws, dk, ErrorResp(m.id, NotOpened))
    ELSE LET r == EngineExec(ws.db, m.sql)
         IN IF r.err # ""
            THEN Posted(ws, dk, ErrorResp(m.id, "Unknown error"))
            ELSE Posted([ws EXCEPT !.db = r.db],
                        Committed(ConfigVfsType(ws, vt), r.db, dk),
                        Success(m.id, ResultsOf(m.operation, r)))

\* Mutant of execSQL: the connection is not checked before the engine call.
execSQLUnguarded(ws, dk, vt, m) ==
    LET r == EngineExec(ws.db, m.sql)
    IN IF r.err # ""
       THEN Posted(ws, dk, ErrorResp(m.id, r.err))
       ELSE Posted([ws EXCEPT !.db = r.db],
                   Committed(ConfigVfsType(ws, vt), r.db, dk),
                   Success(m.id, ResultsOf(m.operation, r)))

execSQL(ws, dk, vt, m) ==
    IF ~ws.db.open THEN Posted(ws, dk, ErrorResp(m.id, NotOpened))
    ELSE LET r == EngineExec(ws.db, m.sql)
         IN IF r.err # ""
            THEN Posted(ws, dk, ErrorResp(m.id, r.err))
            ELSE Posted([ws EXCEPT !.db = r.db],
                        Committed(ConfigVfsType(ws, vt), r.db, dk),
                        Success(m.id, ResultsOf(m.operation, r)))

\* Mutant of exportDatabase: the capability is not probed.
exportDatabaseUnguarded(ws, dk, m) == Posted(ws, dk, Success(m.id, <<dk>>))

exportDatabase(ws, dk, m) ==
    IF ~HasExportFile(ws.PoolUtil)
    THEN Posted(ws, dk, ErrorResp(m.id, "Export not supported for this VFS type"))
    ELSE Posted(ws, dk, Success(m.id, <<dk>>))

\* importDb of the pool takes a byte array synchronously; sqlite3.opfs.importDb
\* is asynchronous.
importDatabase(ws, dk, m) ==
    IF ~HasImportDb(ws.PoolUtil)
    THEN Posted(ws, dk, ErrorResp(m.id, "Import not supported for this VFS type"))
    ELSE IF ws.PoolUtil = "opfs-sahpool" THEN Posted(ws, m.data, Success(m.id, <<>>))
    ELSE Suspended(ws, dk, m, "importDb")

importDatabaseResume(ws, dk, h) == Posted(ws, h.data, Success(h.id, <<>>))

\* Mutant of deleteDatabase: a delete with no connection open is refused.
deleteDatabaseRequiringConnection(ws, dk, m) ==
    IF ~ws.db.open THEN Posted(ws, dk, ErrorResp(m.id, NotOpened))
    ELSE LET w1 == [ws EXCEPT !.db = NoDb] IN
         IF HasWipeFiles(w1.PoolUtil) THEN Suspended(w1, dk, m, "wipeFiles")
         ELSE Posted(w1, dk, Success(m.id, <<>>))

deleteDatabase(ws, dk, m) ==
    LET w1 == IF ws.db.open THEN [ws EXCEPT !.db = NoDb] ELSE ws IN
    IF HasWipeFiles(w1.PoolUtil) THEN Suspended(w1, dk, m, "wipeFiles")
    ELSE Posted(w1, dk, Success(m.id, <<>>))

deleteDatabaseResume(ws, dk, h) == Posted(ws, 0, Success(h.id, <<>>))

\* `if (!sql) throw new Error('SQL required for exec')`, and likewise for
\* query and run.
SqlRequired(operation) ==
    CASE operation = "exec" -> "SQL required for exec"
      [] operation = "query" -> "SQL required for query"
      [] OTHER -> "SQL required for run"

\* handleDatabaseOperation from the arrival of message m to the handler's
\* first real suspension or to its response.  Every throw inside the switch
\* is caught and becomes an error response.  `!filename` holds for a missing
\* and for an empty filename; data 0 stands for a message without data.
handleDatabaseOperation(ws, dk, vt, pg, ok, m) ==
    CASE m.operation = "init" ->
           IF m.config = {}
           THEN Posted(ws, dk, ErrorResp(m.id, "Configuration required for init"))
           ELSE initDatabase(ws, dk, m)
      [] m.operation = "open" ->
           IF m.filename = ""
           THEN Posted(ws, dk, ErrorResp(m.id, "Filename required for open"))
           ELSE openDatabase(ws, dk, vt, pg, ok, m)
      [] m.operation = "close" -> closeDatabase(ws, dk, m)
      [] m.operation \in {"exec", "query", "run"} ->
           IF m.sql = ""
           THEN Posted(ws, dk, ErrorResp(m.id, SqlRequired(m.operation)))
           ELSE execSQL(ws, dk, vt, m)
      [] m.operation = "export" -> exportDatabase(ws, dk, m)
      [] m.operation = "import" ->
           IF m.filename = "" \/ m.data = 0
           THEN Posted(ws, dk,
                       ErrorResp(m.id, "Filename and data required for import"))
           ELSE importDatabase(ws, dk, m)
      [] m.operation = "delete" -> deleteDatabase(ws, dk, m)
      [] OTHER -> Posted(ws, dk, ErrorResp(m.id, "Unknown operation"))

\* A suspended handler h taken up again.
ResumeHandler(ws, dk, vt, ok, h) ==
    LET w0 == [ws EXCEPT !.handlers = @ \ {h}] IN
    CASE h.operation = "init" -> initDatabaseResume(w0, dk, vt, ok, h)
      [] h.operation = "import" -> importDatabaseResume(w0, dk, h)
      [] OTHER -> deleteDatabaseResume(w0, dk, h)

\* self.origin of the worker, and the origin of some other site.
SelfOrigin == "https://app.example"
OtherOrigin == "https://other.example"

\* Mutant of listener: the origin of the event is not looked at.
listenerAnyOrigin(ws, dk, vt, pg, ok, m) ==
    handleDatabaseOperation(ws, dk, vt, pg, ok, m)

\* The worker's message listener, from the event to the handler's first
\* real suspension or to its response.  An event whose origin is set and is
\* not the worker's own is answered with an error and not handled.  The
\* listener does not wait for handlers it suspended earlier.
listener(ws, dk, vt, pg, ok, m) ==
    IF SelfOrigin # "" /\ m.origin # "" /\ m.origin # SelfOrigin
    THEN Posted(ws, dk, ErrorResp(m.id, "Invalid message origin"))
    ELSE handleDatabaseOperation(ws, dk, vt, pg, ok, m)

\* self.postMessage(response): the message event queued on the Worker
\* object w of the main thread.
FromWorker(w, resp) == [k \in DOMAIN resp |-> [w |-> w, data |-> resp[k]]]

MayReceive(ws) == ws.alive /\ ws.inbox # <<>>

WorkerReceive(w) ==
    /\ w \in DOMAIN workers
    /\ MayReceive(workers[w])
    /\ LET ws == workers[w]
           r == listener([ws EXCEPT !.inbox = Tail(@)], disk,
                         vfsType, pragma, envOk, Head(ws.inbox))
       IN /\ workers' = [workers EXCEPT ![w] = r.ws]
          /\ disk' = r.disk
          /\ respQ' = respQ \o FromWorker(w, r.resp)
    /\ UNCHANGED <<vfsType, envOk, pragma, logging, worker, messageId, pendingRequests,
                   isReady, readyPromise, promises, rps, calls, sent,
                   emitted, results>>

WorkerResume(w) ==
    /\ w \in DOMAIN workers
    /\ workers[w].alive
    /\ \E h \in workers[w].handlers :
         LET r == ResumeHandler(workers[w], disk, vfsType, envOk, h)
         IN /\ workers' = [workers EXCEPT ![w] = r.ws]
            /\ disk' = r.disk
            /\ respQ' = respQ \o FromWorker(w, r.resp)
    /\ UNCHANGED <<vfsType, envOk, pragma, logging, worker, messageId, pendingRequests,
                   isReady, readyPromise, promises, rps, calls, sent,
                   emitted, results>>

\* ---------------------------------------------------------- controller
\* The controller's fields, the promises and the calls as one value, so
\* that the methods compose as the code composes them.
Ctl ==
    [worker |-> worker, messageId |-> messageId,
     pendingRequests |-> pendingRequests, isReady |-> isReady,
     readyPromise |-> readyPromise, promises |-> promises, rps |-> rps,
     calls |-> calls, workers |-> workers, respQ |-> respQ, sent |-> sent]

Install(S) ==
    /\ worker' = S.worker
    /\ messageId' = S.messageId
    /\ pendingRequests' = S.pendingRequests
    /\ isReady' = S.isReady
    /\ readyPromise' = S.readyPromise
    /\ promises' = S.promises
    /\ rps' = S.rps
    /\ calls' = S.calls
    /\ workers' = S.workers
    /\ respQ' = S.respQ
    /\ sent' = S.sent

PendingPromise == [state |-> "pending", value |-> <<>>, error |-> ""]

\* History: how many times close() or delete() have torn the executor down.
NumTorn(S) == Cardinality({j \in DOMAIN S.calls : S.calls[j].tore})

\* History: the last call before this one was a close() that has completed
\* its teardown, and nothing has re-initialized the controller since.
JustClosed(S) ==
    /\ S.calls # <<>>
    /\ S.calls[Len(S.calls)].kind = "close"
    /\ S.calls[Len(S.calls)].tore
    /\ \A p \in DOMAIN S.sent : S.sent[p].torn < NumTorn(S)

\* History: the last call before this one was a delete() that has completed
\* its teardown, and nothing has re-initialized the controller since.
JustDeleted(S) ==
    /\ S.calls # <<>>
    /\ S.calls[Len(S.calls)].kind = "delete"
    /\ S.calls[Len(S.calls)].tore
    /\ \A p \in DOMAIN S.sent : S.sent[p].torn < NumTorn(S)

\* History: the rows a query on the controller's connection would return
\* now (-1 when the controller holds no open connection).
Visible(S) ==
    IF S.worker # 0 /\ S.workers[S.worker].db.open
    THEN S.workers[S.worker].db.rows ELSE -1

\* A call of the application.  pc, stage, req, rp, immErr: where the async
\* function stands and what it awaits; outcome, value, error: how its
\* promise settled; origErr, bodyLeft: locals of transaction().  The other
\* fields are history: own (the promise of the call's own request), tore
\* (the call tore the executor down), threw (the transaction body threw),
\* rejoin (ready() handed the call an initialization that had failed
\* already), wasReady, tornAt, nWorkers, afterClose, afterDelete (the
\* controller when the call was made), returned (the transaction body
\* returned normally), rowsAt (the visible rows when the body started, kept
\* while the transaction runs), measured and added (whether the visible
\* rows were known both when the body started and when the transaction
\* settled, and by how many they differ), table and given (the table name
\* and the SQL text of a call made through table(name)), filename (the name
\* given to import).
NewCall(kind, sql, S) ==
    [kind |-> kind, sql |-> sql, pc |-> "start", stage |-> "own",
     req |-> 0, rp |-> 0, immErr |-> "",
     outcome |-> "none", value |-> <<>>, error |-> "",
     origErr |-> "", bodyLeft |-> 0,
     own |-> 0, tore |-> FALSE, threw |-> FALSE, rejoin |-> FALSE,
     wasReady |-> S.isReady, tornAt |-> NumTorn(S),
     nWorkers |-> Len(S.workers), afterClose |-> JustClosed(S),
     afterDelete |-> JustDeleted(S),
     returned |-> FALSE,
     rowsAt |-> -1, measured |-> FALSE, added |-> 0,
     table |-> "", given |-> "", filename |-> ""]

\* Mutant of NextId: a counter that starts over with every request.
NextIdRestarting(n) == 1

\* `msg_${++this.messageId}`
NextId(n) == n + 1

\* Mutant of sendMessage: the id is taken before the worker is looked at.
sendMessageConsumingId(S, i, operation, sql) ==
    IF S.worker = 0
    THEN [S EXCEPT !.messageId = NextId(@),
                   !.calls[i].req = 0,
                   !.calls[i].immErr = "Worker not initialized"]
    ELSE LET id == NextId(S.messageId)
             p == Len(S.promises) + 1
             m == [id |-> id, operation |-> operation, sql |-> sql,
                   data |-> IF operation = "import" THEN 1 ELSE 0,
                   filename |-> IF operation = "open" THEN ConfigFilename
                                ELSE IF operation = "import"
                                THEN S.calls[i].filename ELSE "",
                   config |-> IF operation = "init"
                              THEN serializableConfig(logging) ELSE {},
                   origin |-> ""]
         IN [S EXCEPT !.messageId = id,
                      !.pendingRequests = (id :> p) @@ @,
                      !.promises = Append(@, PendingPromise),
                      !.workers[S.worker].inbox =
                          IF S.workers[S.worker].alive THEN Append(@, m) ELSE @,
                      !.sent = Append(@, [id |-> id, operation |-> operation,
                                          sql |-> sql, w |-> S.worker,
                                          call |-> i, ready |-> S.isReady,
                                          torn |-> NumTorn(S)]),
                      !.calls[i].req = p,
                      !.calls[i].immErr = ""]

\* sendMessage on behalf of call i.  With no worker the promise is rejected
\* at once: no id, no entry, no message.  Otherwise the entry is stored and
\* the message posted; the call's req names the promise it may await.
sendMessage(S, i, operation, sql) ==
    IF S.worker = 0
    THEN [S EXCEPT !.calls[i].req = 0,
                   !.calls[i].immErr = "Worker not initialized"]
    ELSE LET id == NextId(S.messageId)
             p == Len(S.promises) + 1
             m == [id |-> id, operation |-> operation, sql |-> sql,
                   data |-> IF operation = "import" THEN 1 ELSE 0,
                   filename |-> IF operation = "open" THEN ConfigFilename
                                ELSE IF operation = "import"
                                THEN S.calls[i].filename ELSE "",
                   config |-> IF operation = "init"
                              THEN serializableConfig(logging) ELSE {},
                   origin |-> ""]
         IN [S EXCEPT !.messageId = id,
                      !.pendingRequests = (id :> p) @@ @,
                      !.promises = Append(@, PendingPromise),
                      !.workers[S.worker].inbox =
                          IF S.workers[S.worker].alive THEN Append(@, m) ELSE @,
                      !.sent = Append(@, [id |-> id, operation |-> operation,
                                          sql |-> sql, w |-> S.worker,
                                          call |-> i, ready |-> S.isReady,
                                          torn |-> NumTorn(S)]),
                      !.calls[i].req = p,
                      !.calls[i].immErr = ""]

Done(S, i, outcome, value, error) ==
    LET known == S.calls[i].rowsAt >= 0 /\ Visible(S) >= 0 IN
    [S EXCEPT !.calls[i].pc = "done", !.calls[i].outcome = outcome,
              !.calls[i].value = value, !.calls[i].error = error,
              !.calls[i].req = 0, !.calls[i].immErr = "",
              !.calls[i].measured = known,
              !.calls[i].added = IF known THEN Visible(S) - S.calls[i].rowsAt
                                 ELSE 0,
              !.calls[i].rowsAt = -1]

\* The message the call's current stage sends.
StageOperation(c) ==
    IF c.kind = "transaction" THEN "exec" ELSE c.kind
\* Mutant of StageSql: the catch block sends COMMIT.
StageSqlCommitInCatch(c) ==
    IF c.kind # "transaction" THEN c.sql
    ELSE IF c.stage = "begin" THEN "BEGIN IMMEDIATE"
    ELSE "COMMIT"

StageSql(c) ==
    IF c.kind # "transaction" THEN c.sql
    ELSE IF c.stage = "begin" THEN "BEGIN IMMEDIATE"
    ELSE IF c.stage = "commit" THEN "COMMIT"
    ELSE "ROLLBACK"

\* `return this.sendMessage({operation, sql, params})`
sendOwn(S, i) ==
    LET T == sendMessage(S, i, StageOperation(S.calls[i]), StageSql(S.calls[i]))
    IN [T EXCEPT !.calls[i].pc = "req",
                 !.calls[i].own = IF T.calls[i].stage = "own"
                                  THEN T.calls[i].req ELSE @]

\* initialize() up to its first await: the worker is created, the listener
\* attached and the init message sent.
initialize(S, i) ==
    LET S1 == [S EXCEPT !.workers = Append(@, FreshWorker),
                        !.worker = Len(S.workers) + 1]
        S2 == sendMessage(S1, i, "init", "")
    IN [S2 EXCEPT !.calls[i].pc = "init"]

\* Mutant of JoinsReadyPromise: ready() does not look at readyPromise.
JoinsNothing(S) == FALSE

\* `if (this.readyPromise) return this.readyPromise;`
JoinsReadyPromise(S) == S.readyPromise # 0

\* ready() when isReady is false: the promise in flight is returned, or a
\* new initialization is started and its promise stored.
ready(S, i) ==
    IF JoinsReadyPromise(S)
    THEN [S EXCEPT !.calls[i].pc = "join", !.calls[i].rp = S.readyPromise,
                   !.calls[i].rejoin =
                       (S.rps[S.readyPromise].state = "rejected")]
    ELSE LET S1 == initialize(S, i)
         IN [S1 EXCEPT !.rps = Append(@, PendingPromise),
                       !.readyPromise = Len(S.rps) + 1,
                       !.calls[i].rp = Len(S.rps) + 1]

\* Mutant of execOp: ready() is called but not awaited.
execOpNotAwaitingReady(S, i) ==
    IF S.isReady THEN sendOwn(S, i) ELSE sendOwn(ready(S, i), i)

\* exec, query, run, export, import, delete (and the exec calls of
\* transaction): `if (!this.isReady) await this.ready();` then the send.
execOp(S, i) == IF S.isReady THEN sendOwn(S, i) ELSE ready(S, i)

DropFrom(q, w) == SelectSeq(q, LAMBDA e : e.w # w)

\* Mutant of terminate: the worker is left running.
terminateNothing(S) == S

\* this.worker?.terminate(): the worker stops where it is, its inbox and its
\* suspended handlers are gone, and the message events it queued on the
\* Worker object and that were not dispatched yet are discarded.
terminate(S) ==
    IF S.worker = 0 THEN S
    ELSE [S EXCEPT !.workers[S.worker] = DeadWorker,
                   !.respQ = DropFrom(@, S.worker)]

\* Mutant of Teardown: the readiness state is not reset.
TeardownKeepingReady(S) == [terminate(S) EXCEPT !.worker = 0]

\* Mutant of Teardown: the fields are reset, the worker is left running.
TeardownWithoutTerminate(S) ==
    [S EXCEPT !.worker = 0, !.isReady = FALSE, !.readyPromise = 0]

\* close() and delete() after their request resolved.
Teardown(S) ==
    [terminate(S) EXCEPT !.worker = 0, !.isReady = FALSE, !.readyPromise = 0]

\* What the call is suspended on: the promise of the request it awaits (or
\* the rejection sendMessage produced at once), or the readiness promise.
Awaited(S, c) ==
    IF c.pc = "join" THEN S.rps[c.rp]
    ELSE IF c.immErr # ""
    THEN [state |-> "rejected", value |-> <<>>, error |-> c.immErr]
    ELSE S.promises[c.req]

Waiting(c) == c.pc \in {"init", "open", "join", "req", "bodyreq"}
Runnable(S, c) == Waiting(c) /\ Awaited(S, c).state # "pending"

\* Mutant of fail: the catch block sends ROLLBACK and then throws an error
\* of its own instead of the one it caught.
failThrowingAnother(S, i, err) ==
    LET c == S.calls[i] IN
    IF c.kind # "transaction" \/ c.stage \in {"pre", "rollback"}
    THEN Done(S, i, "rejected", <<>>, err)
    ELSE execOp([S EXCEPT !.calls[i].origErr = "Transaction failed",
                          !.calls[i].threw = (c.stage = "body"),
                          !.calls[i].stage = "rollback",
                          !.calls[i].req = 0, !.calls[i].immErr = ""], i)

\* The await of the call's current stage threw err.
fail(S, i, err) ==
    LET c == S.calls[i] IN
    IF c.kind # "transaction" \/ c.stage \in {"pre", "rollback"}
    THEN Done(S, i, "rejected", <<>>, err)
    ELSE \* catch (error) { await this.exec('ROLLBACK'); throw error; }
         execOp([S EXCEPT !.calls[i].origErr = err,
                          !.calls[i].threw = (c.stage = "body"),
                          !.calls[i].stage = "rollback",
                          !.calls[i].req = 0, !.calls[i].immErr = ""], i)

\* `await this.ready()` returned.
afterReady(S, i) ==
    LET c == S.calls[i] IN
    IF c.kind = "ready" THEN Done(S, i, "resolved", <<>>, "")
    ELSE IF c.kind = "transaction" /\ c.stage = "pre"
    THEN execOp([S EXCEPT !.calls[i].stage = "begin"], i)
    ELSE sendOwn(S, i)

\* The request of the call's current stage resolved with value.
succeed(S, i, value) ==
    LET c == S.calls[i] IN
    CASE c.kind \in {"close", "delete"} ->
           Done([Teardown(S) EXCEPT !.calls[i].tore = TRUE],
                i, "resolved", <<>>, "")
      [] c.kind = "transaction" /\ c.stage = "begin" ->
           [S EXCEPT !.calls[i].pc = "body", !.calls[i].stage = "body",
                     !.calls[i].bodyLeft = MaxBody, !.calls[i].req = 0,
                     !.calls[i].rowsAt = Visible(S)]
      [] c.kind = "transaction" /\ c.stage = "rollback" ->
           Done(S, i, "rejected", <<>>, c.origErr)
      [] OTHER -> Done(S, i, "resolved", value, "")

Settle(S, rp, state, err) ==
    [S EXCEPT !.rps[rp] = [state |-> state, value |-> <<>>, error |-> err]]

\* The microtask that takes call i up again once what it awaits is settled.
continue(S, i) ==
    LET c == S.calls[i]
        a == Awaited(S, c)
    IN CASE c.pc = "init" ->
              IF a.state = "resolved"
              THEN [sendMessage(S, i, "open", "") EXCEPT !.calls[i].pc = "open"]
              ELSE fail(Settle(S, c.rp, "rejected", a.error), i, a.error)
         [] c.pc = "open" ->
              IF a.state = "resolved"
              THEN afterReady([Settle(S, c.rp, "resolved", "")
                                   EXCEPT !.isReady = TRUE], i)
              ELSE fail(Settle(S, c.rp, "rejected", a.error), i, a.error)
         [] c.pc = "join" ->
              IF a.state = "resolved" THEN afterReady(S, i)
              ELSE fail(S, i, a.error)
         [] c.pc = "bodyreq" ->
              IF a.state = "resolved"
              THEN [S EXCEPT !.calls[i].pc = "body", !.calls[i].req = 0]
              ELSE fail(S, i, a.error)
         [] OTHER ->
              IF a.state = "resolved" THEN succeed(S, i, a.value)
              ELSE fail(S, i, a.error)

\* Mutant of start: close() sends its request whether or not the controller
\* is ready.
startCloseUnguarded(S, i) ==
    LET c == S.calls[i] IN
    CASE c.kind = "ready" ->
           IF S.isReady THEN Done(S, i, "resolved", <<>>, "") ELSE ready(S, i)
      [] c.kind = "close" -> sendOwn(S, i)
      [] c.kind = "transaction" ->
           IF ~S.isReady THEN ready([S EXCEPT !.calls[i].stage = "pre"], i)
           ELSE execOp([S EXCEPT !.calls[i].stage = "begin"], i)
      [] OTHER -> execOp(S, i)

\* A call of the application, run to its first await.
start(S, i) ==
    LET c == S.calls[i] IN
    CASE c.kind = "ready" ->
           IF S.isReady THEN Done(S, i, "resolved", <<>>, "") ELSE ready(S, i)
      [] c.kind = "close" ->
           IF ~S.isReady THEN Done(S, i, "resolved", <<>>, "")
           ELSE sendOwn(S, i)
      [] c.kind = "transaction" ->
           IF ~S.isReady THEN ready([S EXCEPT !.calls[i].stage = "pre"], i)
           ELSE execOp([S EXCEPT !.calls[i].stage = "begin"], i)
      [] OTHER -> execOp(S, i)

\* Mutant of Outcome: the status of the response is not looked at.
OutcomeIgnoringStatus(r) ==
    [state |-> "resolved", value |-> r.results, error |-> ""]

\* handleWorkerMessage: the outcome a response gives the promise it names.
Outcome(r) ==
    IF r.status = "error"
    THEN [state |-> "rejected", value |-> <<>>,
          error |-> IF r.error = "" THEN "Unknown error" ELSE r.error]
    ELSE [state |-> "resolved", value |-> r.results, error |-> ""]

Without(f, k) == [x \in DOMAIN f \ {k} |-> f[x]]

\* Mutant of handleWorkerMessage: the promise is settled but its entry
\* stays in the table.
handleWorkerMessageKeepingEntry(S, r) ==
    IF r.id \notin DOMAIN S.pendingRequests THEN S
    ELSE [S EXCEPT !.promises[S.pendingRequests[r.id]] = Outcome(r)]

handleWorkerMessage(S, r) ==
    IF r.id \notin DOMAIN S.pendingRequests THEN S
    ELSE [S EXCEPT !.pendingRequests = Without(@, r.id),
                   !.promises[S.pendingRequests[r.id]] = Outcome(r)]

\* table(_name): the accessor's exec, query and run hand the SQL text they
\* were given to this.exec, this.query and this.run; the name is not used.
table(name, sql) == sql

\* ------------------------------------------------------------- actions
Op(kind, sql) == [kind |-> kind, sql |-> sql, table |-> "", filename |-> ""]

\* db.table(name).exec / query / run (sql)
TableOp(name, kind, sql) ==
    [kind |-> kind, sql |-> sql, table |-> name, filename |-> ""]

\* db.import(filename, data)
ImportOp(filename) ==
    [kind |-> "import", sql |-> "", table |-> "", filename |-> filename]

Operations ==
    {Op("ready", ""), Op("exec", "INSERT"), Op("query", "SELECT 1"),
     Op("query", "SELECT 2"), Op("run", "INSERT"), Op("export", ""),
     ImportOp(ConfigFilename), Op("close", ""), Op("delete", ""),
     Op("transaction", "")}

\* The application calls a method of the controller.
Call(ops, max) ==
    /\ Len(calls) < max
    /\ \E o \in ops :
         LET i == Len(calls) + 1
             c == IF o.table = ""
                  THEN [NewCall(o.kind, o.sql, Ctl)
                           EXCEPT !.filename = o.filename]
                  ELSE [NewCall(o.kind, table(o.table, o.sql), Ctl)
                           EXCEPT !.table = o.table, !.given = o.sql]
             S == [Ctl EXCEPT !.calls = Append(calls, c)]
         IN Install(start(S, i))
    /\ UNCHANGED <<vfsType, envOk, pragma, logging, disk, emitted, results>>

\* A suspended call runs on (a microtask of the main thread).
Continue ==
    /\ \E i \in DOMAIN calls :
         /\ Runnable(Ctl, calls[i])
         /\ Install(continue(Ctl, i))
    /\ UNCHANGED <<vfsType, envOk, pragma, logging, disk, emitted, results>>

\* A message event on the main thread; the microtasks of the task before
\* have run.
Deliver ==
    /\ respQ # <<>>
    /\ \A i \in DOMAIN calls : ~Runnable(Ctl, calls[i])
    /\ Install(handleWorkerMessage([Ctl EXCEPT !.respQ = Tail(@)],
                                   Head(respQ).data))
    /\ UNCHANGED <<vfsType, envOk, pragma, logging, disk, emitted, results>>

\* The transaction body issues a statement through tx and awaits it, or
\* lets it float.
BodyStatement ==
    /\ \E i \in DOMAIN calls, awaited \in BOOLEAN :
         /\ calls[i].pc = "body"
         /\ calls[i].bodyLeft > 0
         /\ LET S == [Ctl EXCEPT !.calls[i].bodyLeft = @ - 1]
                T == sendMessage(S, i, "run", "INSERT")
            IN Install(IF awaited THEN [T EXCEPT !.calls[i].pc = "bodyreq"]
                       ELSE [T EXCEPT !.calls[i].req = 0,
                                      !.calls[i].immErr = ""])
    /\ UNCHANGED <<vfsType, envOk, pragma, logging, disk, emitted, results>>

\* The body returns: `await this.exec('COMMIT')`.
BodyReturn ==
    /\ \E i \in DOMAIN calls :
         /\ calls[i].pc = "body"
         /\ Install(execOp([Ctl EXCEPT !.calls[i].stage = "commit",
                                       !.calls[i].returned = TRUE], i))
    /\ UNCHANGED <<vfsType, envOk, pragma, logging, disk, emitted, results>>

\* The body throws an error of its own.
BodyThrow ==
    /\ \E i \in DOMAIN calls :
         /\ calls[i].pc = "body"
         /\ Install(fail(Ctl, i, "BodyError"))
    /\ UNCHANGED <<vfsType, envOk, pragma, logging, disk, emitted, results>>

Receive == \E w \in DOMAIN workers : WorkerReceive(w)
Resume == \E w \in DOMAIN workers : WorkerResume(w)

\* The messages some other party may post to the executor: an init with a
\* configuration, an open with or without a filename, or a close, from the
\* worker's own origin or from another, under an id the controller never
\* uses (0) or under the id of the controller's first request (1).
PostedMessages ==
    LET all == {[id |-> id, operation |-> operation, sql |-> "", data |-> 0,
                 filename |-> filename,
                 config |-> IF operation = "init"
                            THEN serializableConfig(DEFAULT_LOGGING_CONFIG)
                            ELSE {},
                 origin |-> origin] :
                   id \in {0, 1}, operation \in {"init", "open", "close"},
                   filename \in {"", ConfigFilename},
                   origin \in {SelfOrigin, OtherOrigin}}
    IN {m \in all : m.operation = "open" \/ m.filename = ""}

\* A message event from another party reaches the listener of a running
\* executor that is idle and whose responses have all been delivered.
Post ==
    /\ respQ = <<>>
    /\ \E w \in DOMAIN workers : \E m \in PostedMessages :
          /\ workers[w].alive
          /\ workers[w].inbox = <<>> /\ workers[w].handlers = {}
          /\ workers' = [workers EXCEPT ![w].inbox = Append(@, m)]
    /\ UNCHANGED <<vfsType, envOk, pragma, logging, worker, messageId, pendingRequests,
                   isReady, readyPromise, promises, rps, calls, respQ, disk,
                   sent, emitted, results>>

\* The controller after construction, whatever its configuration.
Constructed ==
    /\ \E userType \in {""} \cup VFSTypes : vfsType = MergedVfsType(userType)
    /\ envOk \in IF vfsType = "memdb" THEN {TRUE} ELSE BOOLEAN
    /\ worker = 0
    /\ messageId = 0
    /\ pendingRequests = <<>>
    /\ isReady = FALSE
    /\ readyPromise = 0
    /\ promises = <<>>
    /\ rps = <<>>
    /\ calls = <<>>
    /\ workers = <<>>
    /\ respQ = <<>>
    /\ disk = 0
    /\ sent = <<>>
    /\ emitted = <<>>
    /\ results = <<>>

\* The application passes no pragma settings.
Init ==
    /\ Constructed
    /\ pragma = MergedPragma(<<>>)
    /\ logging = DEFAULT_LOGGING_CONFIG

\* The application passes any of the pragma settings.
InitPragmas ==
    /\ Constructed
    /\ \E user \in UserPragmas : pragma = MergedPragma(user)
    /\ logging = DEFAULT_LOGGING_CONFIG

\* The application passes any of the logging settings.
InitLogging ==
    /\ Constructed
    /\ pragma = MergedPragma(<<>>)
    /\ \E user \in UserLoggings : logging = MergedLogging(user)

\* The executor as any sender of messages sees it: the controller's requests
\* next to messages posted by another party.
ExecutorOperations == {Op("query", "SELECT 1"), Op("exec", "")}

NextExecutor ==
    \/ Call(ExecutorOperations, MaxCalls)
    \/ Continue
    \/ Deliver
    \/ Receive
    \/ Resume
    \/ Post

SpecExecutor == Init /\ [][NextExecutor]_vars

\* The cells a row may hold: text over the characters [ ] { }, a number, NULL.
Chars == {"[", "]", "{", "}"}
Texts == UNION {[1..n -> Chars] : n \in 0..MaxText}
Cells ==
    {[type |-> "string", text |-> t] : t \in Texts}
       \cup {[type |-> "number", n |-> 7], [type |-> "null"]}

\* The cells whose text, if any, has at most one character.
ShortCells == {c \in Cells : c.type = "string" => Len(c.text) <= 1}

\* statement.getColumnNames() of `SELECT id, doc FROM t`
QueryColumns == <<"id", "doc">>

\* The rows of such a query: the row number and any cell.
EmittedRows(docs) ==
    [k \in DOMAIN docs |-> <<[type |-> "number", n |-> k], docs[k]>>]

\* A controller on the in-memory backend; no query has run.
InitRows ==
    /\ Init
    /\ vfsType = "memdb"

\* The engine runs the statement and calls the callback for each row.  One
\* row holds any cell, the others a short one.
EngineRows ==
    /\ emitted = <<>>
    /\ \E n \in 1..MaxRows : \E long \in 1..n : \E cell \in Cells :
       \E short \in [1..n -> ShortCells] :
          LET docs == [short EXCEPT ![long] = cell] IN
          /\ emitted' = EmittedRows(docs)
          /\ results' = querySQL(QueryColumns, EmittedRows(docs))
    /\ UNCHANGED <<vfsType, envOk, pragma, logging, worker, messageId, pendingRequests,
                   isReady, readyPromise, promises, rps, calls, workers, respQ,
                   disk, sent>>

NextRows == EngineRows

SpecRows == InitRows /\ [][NextRows]_vars

\* The whole surface of the controller.
Next ==
    \/ Call(Operations, MaxCalls)
    \/ Continue
    \/ Deliver
    \/ BodyStatement
    \/ BodyReturn
    \/ BodyThrow
    \/ Receive
    \/ Resume

Spec == Init /\ [][Next]_vars

\* The lifecycle: readiness, one kind of data operation, close and delete.
LifecycleOperations ==
    {Op("ready", ""), Op("query", "SELECT 1"), Op("close", ""),
     Op("delete", "")}

NextLifecycle ==
    \/ Call(LifecycleOperations, MaxCalls)
    \/ Continue
    \/ Deliver
    \/ Receive
    \/ Resume

SpecLifecycle == Init /\ [][NextLifecycle]_vars

\* The application's configuration omits vfs.type.
InitDefaults == Init /\ vfsType = MergedVfsType("")

SpecDefaults == InitDefaults /\ [][NextLifecycle]_vars

SpecLogging == InitLogging /\ [][NextLifecycle]_vars

\* The data operations, one of them failing in the engine.
DataOperations ==
    {Op("exec", "BAD"), Op("query", "SELECT 1"), Op("run", "INSERT"),
     Op("export", ""), ImportOp(ConfigFilename)}

NextData ==
    \/ Call(DataOperations, MaxCalls)
    \/ Continue
    \/ Deliver
    \/ Receive
    \/ Resume

SpecData == Init /\ [][NextData]_vars

\* Transactions, next to close and delete.
TransactionOperations ==
    {Op("transaction", ""), Op("close", ""), Op("delete", "")}

NextTransactions ==
    \/ Call(TransactionOperations, MaxTxCalls)
    \/ Continue
    \/ Deliver
    \/ BodyStatement
    \/ BodyReturn
    \/ BodyThrow
    \/ Receive
    \/ Resume

SpecTransactions == Init /\ [][NextTransactions]_vars

\* Export and import, the import with a filename and without one.
CapabilityOperations ==
    {Op("export", ""), ImportOp(ConfigFilename), ImportOp("")}

NextCapability ==
    \/ Call(CapabilityOperations, MaxCalls)
    \/ Continue
    \/ Deliver
    \/ Receive
    \/ Resume

SpecCapability == Init /\ [][NextCapability]_vars

\* Transactions only, as many as calls are allowed.
CommitOperations == {Op("transaction", "")}

NextCommit ==
    \/ Call(CommitOperations, MaxCalls)
    \/ Continue
    \/ Deliver
    \/ BodyStatement
    \/ BodyReturn
    \/ BodyThrow
    \/ Receive
    \/ Resume

SpecCommit == Init /\ [][NextCommit]_vars

\* The typed table accessor, next to a plain query.
TableOperations ==
    {TableOp("users", "exec", "DELETE FROM $"),
     TableOp("users", "query", "SELECT * FROM $"),
     TableOp("posts", "query", "SELECT * FROM $"),
     TableOp("posts", "run", "INSERT INTO $ DEFAULT VALUES"),
     TableOp("users", "query", "SELECT 1"),
     Op("query", "SELECT 1")}

NextTable ==
    \/ Call(TableOperations, MaxCalls)
    \/ Continue
    \/ Deliver
    \/ Receive
    \/ Resume

SpecTable == Init /\ [][NextTable]_vars

\* Statements that may reach the executor when no connection is open: next
\* to a close or a delete, one of them without SQL text.
NotOpenOperations ==
    {Op("exec", ""), Op("query", "SELECT 1"), Op("run", "INSERT"),
     Op("close", ""), Op("delete", "")}

NextNotOpen ==
    \/ Call(NotOpenOperations, MaxCalls)
    \/ Continue
    \/ Deliver
    \/ Receive
    \/ Resume

SpecNotOpen == Init /\ [][NextNotOpen]_vars

\* Statements the engine refuses, next to one it accepts, under any of the
\* pragma settings.
EngineErrorOperations ==
    {Op("ready", ""), Op("exec", "BAD"), Op("query", "BAD"), Op("run", "BAD"),
     Op("query", "SELECT 1")}

NextEngineErrors ==
    \/ Call(EngineErrorOperations, MaxCalls)
    \/ Continue
    \/ Deliver
    \/ Receive
    \/ Resume

SpecEngineErrors == InitPragmas /\ [][NextEngineErrors]_vars

\* ------------------------------------------------------------- claims
Settled(p) == promises[p].state # "pending"
DataKinds == {"exec", "query", "run", "export", "import"}

\* A message event was dispatched to handleWorkerMessage in this step.
Delivered == respQ # <<>> /\ respQ' = Tail(respQ) /\ workers' = workers

\* C1: a response whose id names an outstanding request settles exactly that
\* request's promise, resolved with the results on success or ready and
\* rejected with the response's error text on error, and removes exactly that
\* entry; no other request is settled or removed.
C1_ResponseSettlesItsRequest ==
    [][(Delivered /\ Head(respQ).data.id \in DOMAIN pendingRequests) =>
         LET r == Head(respQ).data
             p == pendingRequests[r.id]
         IN /\ DOMAIN pendingRequests' = DOMAIN pendingRequests \ {r.id}
            /\ \A k \in DOMAIN pendingRequests' :
                   pendingRequests'[k] = pendingRequests[k]
            /\ promises[p].state = "pending"
            /\ IF r.status = "error"
               THEN promises'[p] = [state |-> "rejected", value |-> <<>>,
                                    error |-> r.error]
               ELSE promises'[p] = [state |-> "resolved", value |-> r.results,
                                    error |-> ""]
            /\ \A q \in DOMAIN promises \ {p} : promises'[q] = promises[q]]_vars

\* C1 witness: one request was rejected by an error response and one was
\* resolved with rows while a third was still outstanding.
C1_Witness ==
    /\ \E p \in DOMAIN promises : promises[p].state = "rejected"
    /\ \E p \in DOMAIN promises :
           promises[p].state = "resolved" /\ promises[p].value # <<>>
    /\ DOMAIN pendingRequests # {}

\* C2: two requests sent on a ready controller, the second while the first
\* is outstanding, resolve in send order, and each query resolves with the
\* rows of its own statement.
C2_SendOrderAndOwnResult ==
    /\ \A p \in DOMAIN promises : \A q \in DOMAIN promises :
          (p < q /\ sent[p].ready /\ sent[q].ready /\ sent[p].w = sent[q].w
             /\ Settled(q)) => Settled(p)
    /\ \A p \in DOMAIN promises :
          promises[p].state = "resolved" =>
             /\ sent[p].sql = "SELECT 1" => promises[p].value = <<1>>
             /\ sent[p].sql = "SELECT 2" => promises[p].value = <<2>>

\* C3: the executor starts handling a message only when no earlier handler
\* is still suspended.
C3_OneOperationAtATime ==
    [][\A w \in DOMAIN workers :
          (/\ workers[w].inbox # <<>>
           /\ workers'[w].alive
           /\ workers'[w].inbox = Tail(workers[w].inbox))
          => workers[w].handlers = {}]_vars

Inits == {p \in DOMAIN sent : sent[p].operation = "init"}
Opens == {p \in DOMAIN sent : sent[p].operation = "open"}
AwaitsReadiness(c) == c.pc \in {"init", "open", "join"}
TornNow == Cardinality({j \in DOMAIN calls : calls[j].tore})

\* C4: between two teardowns one executor is started and one init and one
\* open are sent, however many ready() calls and operations are made, and
\* all the callers waiting for readiness wait for the same outcome.
C4_SingleInitialization ==
    /\ \A p \in Inits : \A q \in Inits :
          (sent[p].torn = sent[q].torn \/ sent[p].w = sent[q].w) => p = q
    /\ \A p \in Opens : \A q \in Opens :
          (sent[p].torn = sent[q].torn \/ sent[p].w = sent[q].w) => p = q
    /\ \A w \in DOMAIN workers : \E p \in Inits : sent[p].w = w
    /\ \A i \in DOMAIN calls :
          (calls[i].kind # "close" \/ calls[i].wasReady) =>
             \E p \in Inits : sent[p].torn = calls[i].tornAt
    /\ isReady => \E p \in Opens :
                     /\ sent[p].torn = TornNow /\ sent[p].w = worker
                     /\ promises[p].state = "resolved"
    /\ \A i \in DOMAIN calls :
          AwaitsReadiness(calls[i]) =>
             /\ calls[i].rp = readyPromise
             /\ \A j \in DOMAIN calls :
                   AwaitsReadiness(calls[j]) => calls[j].rp = calls[i].rp

\* C4 witness: three callers wait for one initialization in flight.
C4_Witness ==
    /\ Len(workers) = 1
    /\ Cardinality({i \in DOMAIN calls : AwaitsReadiness(calls[i])}) >= 3
    /\ \E i \in DOMAIN calls : calls[i].kind = "ready" /\ calls[i].pc = "join"

\* The init and the open of the worker that promise p's message went to were
\* sent and answered with success before p's message was sent.
InitializedBefore(p) ==
    \E a \in Inits : \E b \in Opens :
       /\ a < b /\ b < p
       /\ sent[a].w = sent[p].w /\ sent[b].w = sent[p].w
       /\ promises[a].state = "resolved" /\ promises[b].state = "resolved"

\* C5: a data operation called on a controller that is not ready sends its
\* own request only after init and open were answered with success, and
\* settles as its own request settles; when the initialization fails the
\* operation is rejected and its request is never sent.
C5_ImplicitReadiness ==
    \A i \in DOMAIN calls :
       LET c == calls[i] IN
       (c.kind \in DataKinds /\ ~c.wasReady) =>
          /\ c.own # 0 => InitializedBefore(c.own)
          /\ (c.pc = "done" /\ c.own # 0) =>
                /\ c.outcome = promises[c.own].state
                /\ c.value = promises[c.own].value
                /\ c.error = promises[c.own].error
          /\ (c.pc = "done" /\ c.outcome = "resolved") => c.own # 0
          /\ (c.rp # 0 /\ rps[c.rp].state = "rejected" /\ ~AwaitsReadiness(c)) =>
                /\ c.own = 0
                /\ c.pc = "done" /\ c.outcome = "rejected"
                /\ c.error = rps[c.rp].error

\* C5 witness: a query made on a fresh controller, while another call's
\* initialization was in flight, resolved with its row.
C5_Witness ==
    \E i \in DOMAIN calls :
       /\ calls[i].kind = "query" /\ ~calls[i].wasReady
       /\ calls[i].rp # 0 /\ sent[1].call # i
       /\ calls[i].pc = "done" /\ calls[i].outcome = "resolved"
       /\ calls[i].value = <<1>>
       /\ InitializedBefore(calls[i].own)

\* C6: once an initialization has failed, a later ready() or operation
\* starts a new attempt: it is never handed the failure of the earlier one.
C6_RetryAfterFailedInit ==
    \A i \in DOMAIN calls : ~calls[i].rejoin

\* C7: a close() that sent its request and has settled has torn the
\* executor down, whatever the answer was.
C7_CloseAlwaysTearsDown ==
    \A i \in DOMAIN calls :
       (calls[i].kind = "close" /\ calls[i].own # 0 /\ calls[i].pc = "done")
          => calls[i].tore

\* The request behind promise p can still be answered: its worker lives or
\* its response waits for delivery.
Answerable(p) ==
    \/ workers[sent[p].w].alive
    \/ \E k \in DOMAIN respQ : respQ[k].data.id = sent[p].id

\* C8: a data operation made before readiness, or after close() or delete()
\* was called, never waits on a request that can no longer be answered.
C8_NeverPendingForever ==
    \A i \in DOMAIN calls :
       LET c == calls[i] IN
       (/\ c.kind \in DataKinds
        /\ \/ ~c.wasReady
           \/ \E j \in 1..(i - 1) : calls[j].kind \in {"close", "delete"}
        /\ c.pc \in {"init", "open", "req"}
        /\ c.req # 0)
          => (Settled(c.req) \/ Answerable(c.req))

UnsupportedErrors ==
    {"Export not supported for this VFS type",
     "Import not supported for this VFS type"}

\* C9: the first data operation after a completed close() starts a new
\* executor, sends init and open to it, sends its own request to that
\* executor only after both were answered with success, and its request is
\* then served by the re-opened database (never "not opened").
C9_ReinitializesAfterClose ==
    \A i \in DOMAIN calls :
       LET c == calls[i] IN
       (c.kind \in DataKinds /\ c.afterClose) =>
          /\ \E a \in Inits :
                /\ sent[a].call = i
                /\ sent[a].w = c.nWorkers + 1
                /\ workers[sent[a].w].alive => worker = sent[a].w
          /\ c.own # 0 =>
                /\ sent[c.own].w = c.nWorkers + 1
                /\ InitializedBefore(c.own)
                /\ \A a \in Inits : \A b \in Opens :
                      (sent[a].w = sent[c.own].w /\ sent[b].w = sent[c.own].w)
                         => (sent[a].call = i /\ sent[b].call = i)
                /\ promises[c.own].state = "rejected" =>
                      promises[c.own].error \in UnsupportedErrors
                /\ (promises[c.own].state = "resolved" /\ c.sql = "SELECT 1") =>
                      promises[c.own].value = <<1>>

\* C9 witness: a query made right after a completed close() resolved with
\* its row on the second executor.
C9_Witness ==
    \E i \in DOMAIN calls :
       /\ calls[i].kind = "query" /\ calls[i].afterClose
       /\ calls[i].pc = "done" /\ calls[i].outcome = "resolved"
       /\ calls[i].value = <<1>>
       /\ sent[calls[i].own].w = 2

SentBy(i, sql) ==
    {p \in DOMAIN sent : sent[p].call = i /\ sent[p].operation = "exec"
                          /\ sent[p].sql = sql}

\* C10 as claimed: when the body throws, ROLLBACK is sent, COMMIT is not, and
\* transaction() rejects with the error the body threw.
C10_RejectsWithBodyError ==
    \A i \in DOMAIN calls :
       LET c == calls[i] IN
       (c.kind = "transaction" /\ c.threw /\ c.pc = "done") =>
          /\ SentBy(i, "ROLLBACK") # {}
          /\ SentBy(i, "COMMIT") = {}
          /\ c.outcome = "rejected"
          /\ c.error = c.origErr

\* C10 as amended: when the body throws, transaction() calls exec('ROLLBACK')
\* once and never COMMIT; it rejects with the body's error when that ROLLBACK
\* succeeds and with the ROLLBACK's own error when it fails.
C10_RejectsWithBodyErrorIfRollbackSucceeds ==
    \A i \in DOMAIN calls :
       LET c == calls[i] IN
       (c.kind = "transaction" /\ c.threw) =>
          /\ SentBy(i, "COMMIT") = {}
          /\ Cardinality(SentBy(i, "ROLLBACK")) <= 1
          /\ c.pc = "done" =>
                /\ c.outcome = "rejected"
                /\ \E p \in SentBy(i, "ROLLBACK") :
                      \/ promises[p].state = "resolved" /\ c.error = c.origErr
                      \/ /\ promises[p].state = "rejected"
                         /\ c.error = promises[p].error

\* C10 witness: a body threw, ROLLBACK succeeded and transaction() rejected
\* with the body's error.
C10_Witness ==
    \E i \in DOMAIN calls :
       /\ calls[i].kind = "transaction" /\ calls[i].threw
       /\ calls[i].pc = "done" /\ calls[i].error = "BodyError"
       /\ \E p \in SentBy(i, "ROLLBACK") : promises[p].state = "resolved"

\* The statements the body of transaction i sent through its handle.
Writes(i) == {p \in DOMAIN sent : sent[p].call = i /\ sent[p].operation = "run"}

\* C11: a transaction whose body threw after issuing writes has left the
\* visible rows as they were when its body started (compared while the
\* controller holds an open connection).
C11_FailedTransactionLeavesNoWrite ==
    \A i \in DOMAIN calls :
       LET c == calls[i] IN
       (/\ c.kind = "transaction" /\ c.threw /\ c.pc = "done"
        /\ Writes(i) # {} /\ c.measured)
          => c.added = 0

\* C12: when the body returned normally, BEGIN IMMEDIATE was sent before
\* every statement of the body and COMMIT after all of them, no ROLLBACK is
\* sent, and transaction() resolves only once COMMIT succeeded, with every
\* write of the body among the visible rows.
C12_CommitAfterBody ==
    \A i \in DOMAIN calls :
       LET c == calls[i] IN
       (c.kind = "transaction" /\ c.returned) =>
          /\ SentBy(i, "BEGIN IMMEDIATE") # {}
          /\ \A w \in Writes(i) :
                /\ \A b \in SentBy(i, "BEGIN IMMEDIATE") : b < w
                /\ \A k \in SentBy(i, "COMMIT") : w < k
          /\ SentBy(i, "ROLLBACK") = {}
          /\ (c.pc = "done" /\ c.outcome = "resolved") =>
                /\ \E k \in SentBy(i, "COMMIT") : promises[k].state = "resolved"
                /\ c.measured => c.added >= Cardinality(Writes(i))

\* The SQL text in which every '$' is replaced by the table name.
Substituted(name, sql) ==
    CASE sql = "DELETE FROM $" /\ name = "users" -> "DELETE FROM users"
      [] sql = "SELECT * FROM $" /\ name = "users" -> "SELECT * FROM users"
      [] sql = "SELECT * FROM $" /\ name = "posts" -> "SELECT * FROM posts"
      [] sql = "INSERT INTO $ DEFAULT VALUES" /\ name = "posts" ->
           "INSERT INTO posts DEFAULT VALUES"
      [] OTHER -> sql

\* C13: the request of a call made through table(name) carries the SQL text
\* in which '$' is replaced by the table name.
C13_TableSubstitutesName ==
    \A i \in DOMAIN calls :
       (calls[i].table # "" /\ calls[i].own # 0) =>
          /\ sent[calls[i].own].operation = calls[i].kind
          /\ sent[calls[i].own].sql = Substituted(calls[i].table, calls[i].given)

\* C14: run() of a single-row INSERT resolves with changes 1, the count the
\* engine reports, and with the engine's last insert row id.
C14_RunReportsEngineCounts ==
    \A p \in DOMAIN promises :
       (/\ sent[p].operation = "run" /\ sent[p].sql = "INSERT"
        /\ promises[p].state = "resolved")
          => /\ Len(promises[p].value) = 2
             /\ promises[p].value[1] = 1
             /\ promises[p].value[2] >= 1

\* The listener of worker w took the first message of its inbox in this step.
Handled(w) ==
    /\ workers[w].inbox # <<>>
    /\ workers'[w].alive
    /\ workers'[w].inbox = Tail(workers[w].inbox)

ExportUnsupported == "Export not supported for this VFS type"
ImportUnsupported == "Import not supported for this VFS type"
ImportRequired == "Filename and data required for import"

\* C15 as claimed: an export request handled while the backend handle offers
\* no export (none installed, or the direct OPFS utilities), and an import
\* request handled while none is installed, is answered with the 'not
\* supported for this VFS type' error and changes neither the executor's
\* state nor the stored data.
C15_UnsupportedCapability ==
    [][\A w \in DOMAIN workers :
          LET ws == workers[w]
              m == Head(ws.inbox)
              noExport == m.operation = "export" /\ ws.PoolUtil \in {"null", "opfs"}
              noImport == m.operation = "import" /\ ws.PoolUtil = "null"
          IN (Handled(w) /\ (noExport \/ noImport)) =>
                /\ respQ' = Append(respQ,
                       [w |-> w,
                        data |-> [id |-> m.id, status |-> "error",
                                  results |-> <<>>,
                                  error |-> IF noExport THEN ExportUnsupported
                                            ELSE ImportUnsupported]])
                /\ workers'[w] = [ws EXCEPT !.inbox = Tail(@)]
                /\ disk' = disk]_vars

\* C15 as amended: the import request is answered with 'Filename and data
\* required for import' when its filename is empty or it has no data, and
\* with the 'not supported' error otherwise.
C15_UnsupportedCapabilityOrFilenameRequired ==
    [][\A w \in DOMAIN workers :
          LET ws == workers[w]
              m == Head(ws.inbox)
              noExport == m.operation = "export" /\ ws.PoolUtil \in {"null", "opfs"}
              noImport == m.operation = "import" /\ ws.PoolUtil = "null"
          IN (Handled(w) /\ (noExport \/ noImport)) =>
                /\ respQ' = Append(respQ,
                       [w |-> w,
                        data |-> [id |-> m.id, status |-> "error",
                                  results |-> <<>>,
                                  error |-> IF noExport THEN ExportUnsupported
                                            ELSE IF m.filename = "" \/ m.data = 0
                                            THEN ImportRequired
                                            ELSE ImportUnsupported]])
                /\ workers'[w] = [ws EXCEPT !.inbox = Tail(@)]
                /\ disk' = disk]_vars

\* C15 witness: an export and an import were both refused as unsupported,
\* and an import without filename on the same backend was refused for that.
C15_Witness ==
    /\ \E p \in DOMAIN promises :
          /\ sent[p].operation = "import"
          /\ workers[sent[p].w].PoolUtil = "null"
          /\ promises[p] = [state |-> "rejected", value |-> <<>>,
                             error |-> ImportRequired]
    /\ \E p \in DOMAIN promises :
          /\ sent[p].operation = "export"
          /\ promises[p] = [state |-> "rejected", value |-> <<>>,
                             error |-> ExportUnsupported]
    /\ \E p \in DOMAIN promises :
          /\ sent[p].operation = "import"
          /\ promises[p] = [state |-> "rejected", value |-> <<>>,
                             error |-> ImportUnsupported]

Statements == {"exec", "query", "run"}

\* C16 as claimed: an exec, query or run request handled while no connection
\* is open is answered with the error 'Database not opened' and changes
\* nothing in the executor.
C16_NotOpenedError ==
    [][\A w \in DOMAIN workers :
          LET ws == workers[w]
              m == Head(ws.inbox)
          IN (Handled(w) /\ m.operation \in Statements /\ ~ws.db.open) =>
                /\ respQ' = Append(respQ,
                       [w |-> w,
                        data |-> [id |-> m.id, status |-> "error",
                                  results |-> <<>>, error |-> NotOpened]])
                /\ workers'[w] = [ws EXCEPT !.inbox = Tail(@)]
                /\ disk' = disk]_vars

\* C16 as amended: the error is 'Database not opened' when the request
\* carries SQL text, and 'SQL required for <operation>' when it carries none.
C16_NotOpenedOrSqlRequiredError ==
    [][\A w \in DOMAIN workers :
          LET ws == workers[w]
              m == Head(ws.inbox)
          IN (Handled(w) /\ m.operation \in Statements /\ ~ws.db.open) =>
                /\ respQ' = Append(respQ,
                       [w |-> w,
                        data |-> [id |-> m.id, status |-> "error",
                                  results |-> <<>>,
                                  error |-> IF m.sql # "" THEN NotOpened
                                            ELSE SqlRequired(m.operation)]])
                /\ workers'[w] = [ws EXCEPT !.inbox = Tail(@)]
                /\ disk' = disk]_vars

\* C16 witness: a query that reached the executor after a delete had closed
\* the connection was rejected with 'Database not opened'.
C16_Witness ==
    \E p \in DOMAIN promises :
       /\ sent[p].operation = "query" /\ sent[p].ready
       /\ promises[p] = [state |-> "rejected", value |-> <<>>,
                          error |-> NotOpened]
       /\ \E q \in 1..(p - 1) :
              sent[q].operation = "delete" /\ sent[q].w = sent[p].w

\* Where the request behind promise p stands in its executor: waiting in the
\* inbox, held by a suspended handler, or answered with the response on its
\* way to the controller.
Places(p) ==
    LET ws == workers[sent[p].w]
        id == sent[p].id
    IN Cardinality({k \in DOMAIN ws.inbox : ws.inbox[k].id = id})
       + Cardinality({h \in ws.handlers : h.id = id})
       + Cardinality({k \in DOMAIN respQ : respQ[k].data.id = id})

\* C17: every request sent to a live executor is, until it is settled, in
\* exactly one place (not yet taken, being handled, or answered by one
\* response that carries its id), and in none once it is settled; an error
\* response carries a message; every response answers a request its executor
\* was sent.
C17_ExactlyOneResponse ==
    /\ \A p \in DOMAIN promises :
          workers[sent[p].w].alive =>
             Places(p) = IF Settled(p) THEN 0 ELSE 1
    /\ \A k \in DOMAIN respQ :
          /\ respQ[k].data.status = "error" => respQ[k].data.error # ""
          /\ \E p \in DOMAIN sent :
                sent[p].id = respQ[k].data.id /\ sent[p].w = respQ[k].w

\* C17 witness: an executor answered a request with an error and a later
\* request with success.
C17_Witness ==
    \E p \in DOMAIN promises : \E q \in DOMAIN promises :
       /\ p < q /\ sent[p].w = sent[q].w
       /\ sent[p].operation = "exec" /\ promises[p].state = "rejected"
       /\ promises[p].error = "SQL logic error"
       /\ promises[q].state = "resolved"

\* The first configured pragma the engine refuses, 0 when it accepts all.
RefusedPragma(pg) ==
    LET bad == {k \in DOMAIN pg : /\ pg[k].value # "undefined"
                                  /\ EnginePragma(NoDb, pg[k]).err # ""}
    IN IF bad = {} THEN 0 ELSE CHOOSE k \in bad : \A j \in bad : k <= j

\* The messages the engine raises.
EngineMessages ==
    {"SQL logic error", PragmaSyntaxError,
     "cannot start a transaction within a transaction",
     "cannot commit - no transaction is active",
     "cannot rollback - no transaction is active"}

\* The call behind a request the engine failed: it sent nothing after that
\* request, awaits it until it is rejected, and is rejected with the
\* message the request was rejected with.
RejectedWithoutRetry ==
    \A p \in DOMAIN promises :
       LET i == sent[p].call
           c == calls[i]
       IN (/\ promises[p].state = "rejected"
           /\ promises[p].error \in EngineMessages
           /\ c.kind # "transaction") =>
             /\ \A q \in DOMAIN sent : q > p => sent[q].call # i
             /\ c.pc = "done" => /\ c.outcome = "rejected"
                                 /\ c.error = promises[p].error

\* C18: when the engine fails a statement of exec, query or run, or a pragma
\* during open, the executor answers the request with exactly the engine's
\* message; that response rejects the request's promise with the same
\* message; the originating call is rejected with it and has sent nothing
\* after the failed request.
C18_EngineErrorPassedThrough ==
    [][/\ \A w \in DOMAIN workers :
            LET ws == workers[w]
                m == Head(ws.inbox)
                bad == RefusedPragma(ConfigPragma(ws, pragma))
                failed(msg) ==
                    respQ' = Append(respQ,
                        [w |-> w,
                         data |-> [id |-> m.id, status |-> "error",
                                   results |-> <<>>, error |-> msg]])
            IN /\ (/\ Handled(w) /\ m.operation \in Statements
                    /\ m.sql # "" /\ ws.db.open
                    /\ EngineExec(ws.db, m.sql).err # "") =>
                      /\ failed(EngineExec(ws.db, m.sql).err)
                      /\ workers'[w].db = ws.db
               /\ (/\ Handled(w) /\ m.operation = "open"
                    /\ ~ws.db.open /\ workers'[w].db.open /\ bad # 0) =>
                      failed(EnginePragma(NoDb, pragma[bad]).err)
       /\ (/\ Delivered
            /\ Head(respQ).data.id \in DOMAIN pendingRequests
            /\ Head(respQ).data.status = "error") =>
              promises'[pendingRequests[Head(respQ).data.id]] =
                 [state |-> "rejected", value |-> <<>>,
                  error |-> Head(respQ).data.error]
       /\ RejectedWithoutRetry
       /\ RejectedWithoutRetry']_vars

\* C18 witness: a run whose statement the engine refused was rejected with
\* the engine's message, on a connection whose pragmas had been applied.
C18_Witness ==
    \E i \in DOMAIN calls :
       /\ calls[i].kind = "run" /\ calls[i].pc = "done"
       /\ calls[i].own # 0
       /\ promises[calls[i].own] = [state |-> "rejected", value |-> <<>>,
                                     error |-> "SQL logic error"]
       /\ calls[i].outcome = "rejected"
       /\ calls[i].error = "SQL logic error"

\* A text over [ ] { } that is valid JSON: n opening brackets, `[]` or `{}`,
\* n closing brackets.
Depth(text) == (Len(text) - 2) \div 2
WellFormed(text) ==
    LET n == Depth(text) IN
    /\ Len(text) >= 2 /\ Len(text) = 2 * n + 2
    /\ \A j \in 1..n : text[j] = "[" /\ text[Len(text) + 1 - j] = "]"
    /\ <<text[n + 1], text[n + 2]>> \in {<<"[", "]">>, <<"{", "}">>}

\* The structure such a text denotes.
RECURSIVE Nested(_, _)
Nested(n, core) ==
    IF n = 0 THEN core ELSE [type |-> "array", items |-> <<Nested(n - 1, core)>>]
Structure(text) ==
    Nested(Depth(text),
           IF text[Depth(text) + 1] = "{" THEN [type |-> "object"]
           ELSE [type |-> "array", items |-> <<>>])

\* C19: query returns one row object per row the engine produced, in the
\* engine's order; a text cell beginning with { or [ is the structure the
\* text denotes when the text is valid JSON and the text itself when it is
\* not; every other cell is the engine's value.
C19_JsonCellsParsedInOrder ==
    /\ Len(results) = Len(emitted)
    /\ \A k \in DOMAIN emitted :
          LET cell == emitted[k][2] IN
          /\ DOMAIN results[k] = {"id", "doc"}
          /\ results[k].id = emitted[k][1]
          /\ results[k].doc =
                IF /\ cell.type = "string" /\ cell.text # <<>>
                   /\ cell.text[1] \in {"{", "["}
                   /\ WellFormed(cell.text)
                THEN Structure(cell.text)
                ELSE cell

\* C19 witness: a query returned, in the engine's order, the text `{` kept
\* because it does not parse, then the array the text `[{}]` denotes.
C19_Witness ==
    /\ Len(results) = 2
    /\ emitted[1][2] = [type |-> "string", text |-> <<"{">>]
    /\ results[1].doc = emitted[1][2]
    /\ emitted[2][2] = [type |-> "string", text |-> <<"[", "{", "}", "]">>]
    /\ results[2].doc = [type |-> "array", items |-> <<[type |-> "object"]>>]

\* The requests of operation `delete` sent on behalf of call i.
Deletes(i) ==
    {p \in DOMAIN sent : sent[p].call = i /\ sent[p].operation = "delete"}

\* What holds of delete() in every state: it sends at most one delete
\* request, and only on a ready controller whose executor answered init and
\* open with success; it is rejected only when that readiness failed, having
\* sent no delete request; when it has resolved, its request was answered
\* and the executor that answered is terminated.  A data operation made
\* right after a completed delete() starts a new executor, sends init and
\* open to it, and only then its own request, which the re-opened database
\* serves.
DeleteContract ==
    /\ \A i \in DOMAIN calls :
          LET c == calls[i] IN
          c.kind = "delete" =>
             /\ Cardinality(Deletes(i)) <= 1
             /\ c.own # 0 => /\ Deletes(i) = {c.own}
                             /\ sent[c.own].ready
                             /\ InitializedBefore(c.own)
             /\ (c.pc = "done" /\ c.outcome = "rejected") => Deletes(i) = {}
             /\ (c.pc = "done" /\ c.outcome = "resolved") =>
                   /\ c.own # 0 /\ c.tore
                   /\ promises[c.own].state = "resolved"
                   /\ ~workers[sent[c.own].w].alive
    /\ \A i \in DOMAIN calls :
          LET c == calls[i] IN
          (c.kind \in DataKinds /\ c.afterDelete) =>
             /\ \E a \in Inits : sent[a].call = i /\ sent[a].w = c.nWorkers + 1
             /\ c.own # 0 =>
                   /\ sent[c.own].w = c.nWorkers + 1
                   /\ InitializedBefore(c.own)
                   /\ promises[c.own].state = "rejected" =>
                         promises[c.own].error \in UnsupportedErrors

\* C20: delete() ensures readiness, then sends exactly one delete request;
\* in the step that follows the request's answer it terminates the executor
\* that answered and resets worker, isReady and readyPromise, and resolves;
\* a later data operation re-initializes.
C20_DeleteReadiesSendsOnceTearsDown ==
    [][/\ DeleteContract
       /\ DeleteContract'
       /\ \A i \in DOMAIN calls :
             (calls[i].kind = "delete" /\ ~calls[i].tore /\ calls'[i].tore) =>
                /\ promises[calls[i].own].state = "resolved"
                /\ worker = sent[calls[i].own].w
                /\ ~workers'[worker].alive
                /\ worker' = 0 /\ ~isReady' /\ readyPromise' = 0
                /\ calls'[i].pc = "done" /\ calls'[i].outcome = "resolved"]_vars

\* C20 witness: a delete() made on a controller that was not ready resolved
\* after one delete request, and the query made right after it resolved
\* with its row on a second executor.
C20_Witness ==
    \E i \in DOMAIN calls : \E j \in DOMAIN calls :
       /\ calls[i].kind = "delete" /\ ~calls[i].wasReady
       /\ calls[i].pc = "done" /\ calls[i].outcome = "resolved"
       /\ Cardinality(Deletes(i)) = 1
       /\ j = i + 1 /\ calls[j].kind = "query" /\ calls[j].afterDelete
       /\ calls[j].pc = "done" /\ calls[j].value = <<1>>
       /\ sent[calls[j].own].w = 2

\* C21: a close() made while isReady is false returns at once, resolved: in
\* that step no request is sent (no id, no pending entry, no promise, no
\* message), no executor is terminated or started, no response is discarded,
\* the controller's fields keep their values and no other call moves.
C21_CloseWhenNotReadyIsNoOp ==
    [][\A i \in DOMAIN calls' \ DOMAIN calls :
          (calls'[i].kind = "close" /\ ~isReady) =>
             /\ UNCHANGED <<worker, messageId, pendingRequests, isReady,
                            readyPromise, promises, rps, workers, respQ, sent,
                            disk>>
             /\ calls'[i].pc = "done" /\ calls'[i].outcome = "resolved"
             /\ ~calls'[i].tore /\ calls'[i].own = 0
             /\ \A j \in DOMAIN calls :
                   /\ calls'[j].pc = calls[j].pc
                   /\ calls'[j].req = calls[j].req
                   /\ calls'[j].rp = calls[j].rp]_vars

\* C21 witness: close() was called while an initialization was in flight,
\* returned at once, and the initialization went on to make the controller
\* ready on the same executor.
C21_Witness ==
    \E i \in DOMAIN calls :
       /\ calls[i].kind = "close" /\ ~calls[i].wasReady
       /\ calls[i].pc = "done" /\ calls[i].nWorkers = 1
       /\ isReady /\ worker = 1 /\ Len(workers) = 1

\* C22: with vfs.type omitted, an executor whose init was answered 'ready'
\* was configured with 'opfs-sahpool' and holds the pool installed for it.
C22_DefaultBackendIsSahPool ==
    \A p \in Inits :
       (/\ promises[p].state = "resolved"
        /\ workers[sent[p].w].alive /\ workers[sent[p].w].sqlite3) =>
          /\ vfsType = "opfs-sahpool"
          /\ workers[sent[p].w].PoolUtil = "opfs-sahpool"

\* C23: a message whose origin is set and is not the executor's own is
\* answered with an error response carrying the message's id, and nothing
\* else happens: the executor's state, its suspended handlers and the disk
\* are as before.
C23_ForeignOriginRefused ==
    [][\A w \in DOMAIN workers :
          LET ws == workers[w]
              m == Head(ws.inbox)
          IN (Handled(w) /\ m.origin # "" /\ m.origin # SelfOrigin) =>
                /\ respQ' = Append(respQ,
                       [w |-> w,
                        data |-> [id |-> m.id, status |-> "error",
                                  results |-> <<>>,
                                  error |-> "Invalid message origin"]])
                /\ workers'[w] = [ws EXCEPT !.inbox = Tail(@)]
                /\ disk' = disk]_vars

\* C23 witness: a message from another origin was refused by an executor
\* whose connection is open.
C23_Witness ==
    /\ respQ # <<>>
    /\ Head(respQ).data.error = "Invalid message origin"
    /\ workers[Head(respQ).w].db.open

\* C24: an entry is added to the pending table when its request is sent, and
\* it leaves the table only when the first response with its id is handled,
\* which settles its promise and no other; a response whose id has no entry
\* changes neither the table nor any promise, and a settled promise never
\* changes again.
C24_PendingEntryAddedOnceRemovedOnce ==
    [][LET handled == /\ respQ # <<>>
                      /\ respQ' = Tail(respQ)
                      /\ workers' = workers
                      /\ calls' = calls
           r == Head(respQ).data
           gone == DOMAIN pendingRequests \ DOMAIN pendingRequests'
           new == DOMAIN pendingRequests' \ DOMAIN pendingRequests
       IN /\ Len(sent') = Len(sent) + 1 =>
                LET id == sent'[Len(sent')].id
                IN /\ new = {id}
                   /\ gone = {}
                   /\ pendingRequests'[id] = Len(promises')
                   /\ Len(promises') = Len(promises) + 1
                   /\ promises'[Len(promises')].state = "pending"
          /\ Len(sent') = Len(sent) => new = {}
          /\ gone # {} => handled /\ gone = {r.id}
          /\ \A id \in DOMAIN pendingRequests \cap DOMAIN pendingRequests' :
                pendingRequests'[id] = pendingRequests[id]
          /\ handled /\ r.id \in DOMAIN pendingRequests =>
                LET p == pendingRequests[r.id]
                IN /\ gone = {r.id}
                   /\ promises[p].state = "pending"
                   /\ promises'[p].state # "pending"
                   /\ \A q \in DOMAIN promises \ {p} : promises'[q] = promises[q]
          /\ handled /\ r.id \notin DOMAIN pendingRequests =>
                pendingRequests' = pendingRequests /\ promises' = promises
          /\ \A q \in DOMAIN promises :
                promises[q].state # "pending" => promises'[q] = promises[q]]_vars

\* C24 witness: a second response with the id of an answered request is
\* about to be handled while another request is still in the table.
C24_Witness ==
    /\ respQ # <<>>
    /\ \E p \in DOMAIN sent : sent[p].id = Head(respQ).data.id
    /\ Head(respQ).data.id \notin DOMAIN pendingRequests
    /\ DOMAIN pendingRequests # {}

\* C25: the ids of the requests one controller has sent are strictly
\* increasing in the order they were sent, also across close() or delete()
\* and the executor started afterwards; the counter is never behind them.
C25_IdsStrictlyIncreasing ==
    /\ \A p, q \in DOMAIN sent : p < q => sent[p].id < sent[q].id
    /\ \A p \in DOMAIN sent : sent[p].id <= messageId
    /\ \A id \in DOMAIN pendingRequests : \E p \in DOMAIN sent : sent[p].id = id

\* C25 witness: requests were sent to two executors, the second one started
\* after a teardown, and a request to the second is still outstanding.
C25_Witness ==
    \E p, q \in DOMAIN sent :
        /\ p < q
        /\ sent[p].w # sent[q].w
        /\ sent[p].torn < sent[q].torn
        /\ sent[q].id \in DOMAIN pendingRequests
        /\ promises[pendingRequests[sent[q].id]].state = "pending"

\* C26: a statement issued through the transaction handle while the
\* controller has no executor is rejected at once with 'Worker not
\* initialized'; the step takes no id, adds no pending entry and no promise
\* of a request, posts no message and starts no executor.
C26_NoExecutorRejectsAtOnce ==
    [][\A i \in DOMAIN calls :
          /\ ( /\ calls[i].pc = "body"
               /\ calls'[i].bodyLeft = calls[i].bodyLeft - 1
               /\ worker = 0 )
              => /\ UNCHANGED <<worker, messageId, pendingRequests, promises,
                                sent, workers, respQ, isReady, readyPromise,
                                rps, disk>>
                 /\ calls'[i].req = 0
                 /\ calls'[i].pc = "bodyreq" =>
                        calls'[i].immErr = "Worker not initialized"
          /\ ( /\ calls'[i].immErr = "Worker not initialized"
               /\ calls[i].immErr # "Worker not initialized" )
              => worker = 0 /\ calls[i].pc = "body"]_vars

\* C26 witness: a transaction body awaits a statement that was rejected
\* because close() or delete() had completed before it was issued.
C26_Witness ==
    \E i \in DOMAIN calls :
        /\ calls[i].kind = "transaction"
        /\ calls[i].pc = "bodyreq"
        /\ calls[i].immErr = "Worker not initialized"
        /\ worker = 0
        /\ \E j \in DOMAIN calls : calls[j].tore

\* C27 as claimed: an open request handled while a connection is open is
\* answered with the error 'Database already opened' under its id, and the
\* connection, the rest of the executor's state and the disk are as before.
C27_OpenWhileOpenRefused ==
    [][\A w \in DOMAIN workers :
          LET ws == workers[w]
              m == Head(ws.inbox)
          IN ( /\ Handled(w)
               /\ m.origin \in {"", SelfOrigin}
               /\ m.operation = "open"
               /\ ws.db.open ) =>
                /\ respQ' = Append(respQ,
                       [w |-> w,
                        data |-> [id |-> m.id, status |-> "error",
                                  results |-> <<>>,
                                  error |-> "Database already opened"]])
                /\ workers'[w] = [ws EXCEPT !.inbox = Tail(@)]
                /\ disk' = disk]_vars

\* C27 as amended: the error is 'Filename required for open' when the request
\* carries no filename, and 'Database already opened' otherwise.
C27_OpenWhileOpenRefusedOrFilenameRequired ==
    [][\A w \in DOMAIN workers :
          LET ws == workers[w]
              m == Head(ws.inbox)
          IN ( /\ Handled(w)
               /\ m.origin \in {"", SelfOrigin}
               /\ m.operation = "open"
               /\ ws.db.open ) =>
                /\ respQ' = Append(respQ,
                       [w |-> w,
                        data |-> [id |-> m.id, status |-> "error",
                                  results |-> <<>>,
                                  error |-> IF m.filename = ""
                                            THEN "Filename required for open"
                                            ELSE "Database already opened"]])
                /\ workers'[w] = [ws EXCEPT !.inbox = Tail(@)]
                /\ disk' = disk]_vars

\* C27 witness: a second open was refused by an executor that holds a
\* connection with its pragmas applied.
C27_Witness ==
    /\ respQ # <<>>
    /\ Head(respQ).data.error = "Database already opened"
    /\ workers[Head(respQ).w].db.open
    /\ workers[Head(respQ).w].db.pragmas # <<>>

\* C28: an init request handled by an executor that is initialized and holds
\* an open connection is answered with an error under its id, and the
\* configuration, the engine handle and the backend handle stay as they are.
C28_InitWhileOpenRefused ==
    [][\A w \in DOMAIN workers :
          LET ws == workers[w]
              m == Head(ws.inbox)
          IN ( /\ Handled(w)
               /\ m.origin \in {"", SelfOrigin}
               /\ m.operation = "init"
               /\ ws.sqlite3
               /\ ws.db.open ) =>
                /\ Len(respQ') = Len(respQ) + 1
                /\ respQ'[Len(respQ')].data.id = m.id
                /\ respQ'[Len(respQ')].data.status = "error"
                /\ workers'[w] = [ws EXCEPT !.inbox = Tail(@)]]_vars

\* C29: the open that assigns the connection applies, in the order of the
\* configuration, each pragma whose value is defined, once, up to the first
\* one the engine refuses; with none refused the response of that same step
\* is the success, otherwise it is the error of the refused pragma and no
\* later pragma is applied.
C29_PragmasInOrderUntilFailure ==
    [][\A w \in DOMAIN workers :
          LET ws == workers[w]
              m == Head(ws.inbox)
              k == RefusedPragma(pragma)
              before == SubSeq(pragma, 1, IF k = 0 THEN Len(pragma) ELSE k - 1)
              defined(e) == e.value # "undefined"
              applied == SelectSeq(before, defined)
              resp == respQ'[Len(respQ')].data
          IN ( /\ Handled(w)
               /\ m.operation = "open"
               /\ ws.currentConfig
               /\ ~ws.db.open
               /\ workers'[w].db.open ) =>
                /\ workers'[w].db.pragmas =
                       [j \in DOMAIN applied |-> applied[j].key]
                /\ Len(respQ') = Len(respQ) + 1
                /\ resp.id = m.id
                /\ k = 0 => resp.status = "success"
                /\ k # 0 => /\ resp.status = "error"
                            /\ resp.error = PragmaSyntaxError]_vars

\* C29 witness: the second of three configured pragmas was refused; the
\* first is applied, the third is not, and the open is answered with the
\* engine's error.
C29_Witness ==
    /\ respQ # <<>>
    /\ Head(respQ).data.error = PragmaSyntaxError
    /\ RefusedPragma(pragma) = 2
    /\ Len(pragma) = 3
    /\ workers[Head(respQ).w].db.open
    /\ workers[Head(respQ).w].db.pragmas = <<"journal_mode">>

\* C30 as claimed: a close handled while a connection is open is answered with
\* success and leaves the executor with no connection, no engine handle, no
\* backend handle and no configuration; a close handled while none is open is
\* answered with 'Database not opened' and changes nothing; a statement
\* handled by an executor in the cleared state is answered with
\* 'Database not opened' and changes nothing.
C30_CloseClearsThenNotOpened ==
    [][\A w \in DOMAIN workers :
          LET ws == workers[w]
              m == Head(ws.inbox)
              cleared == [ws EXCEPT !.db = NoDb, !.PoolUtil = "null",
                                    !.sqlite3 = FALSE,
                                    !.sqlite3InitModule = FALSE,
                                    !.currentConfig = FALSE]
              answer(status, error) ==
                  respQ' = Append(respQ,
                      [w |-> w, data |-> [id |-> m.id, status |-> status,
                                          results |-> <<>>, error |-> error]])
          IN Handled(w) /\ m.origin \in {"", SelfOrigin} =>
               /\ m.operation = "close" /\ ws.db.open =>
                     /\ answer("success", "")
                     /\ workers'[w] = [cleared EXCEPT !.inbox = Tail(@)]
               /\ m.operation = "close" /\ ~ws.db.open =>
                     /\ answer("error", NotOpened)
                     /\ workers'[w] = [ws EXCEPT !.inbox = Tail(@)]
                     /\ disk' = disk
               /\ m.operation \in Statements /\ ws = cleared =>
                     /\ answer("error", NotOpened)
                     /\ workers'[w] = [ws EXCEPT !.inbox = Tail(@)]
                     /\ disk' = disk]_vars

\* C30 as amended: a close handled while a connection is open is answered with
\* success and leaves the executor with no connection, no engine handle, no
\* backend handle and no configuration; a close handled while none is open is
\* answered with 'Database not opened' and changes nothing; a statement
\* handled by an executor in the cleared state is answered with
\* 'Database not opened' when it carries SQL text ('SQL required for
\* <operation>' when it carries none) and changes nothing.
C30_CloseClearsThenNotOpenedOrSqlRequired ==
    [][\A w \in DOMAIN workers :
          LET ws == workers[w]
              m == Head(ws.inbox)
              cleared == [ws EXCEPT !.db = NoDb, !.PoolUtil = "null",
                                    !.sqlite3 = FALSE,
                                    !.sqlite3InitModule = FALSE,
                                    !.currentConfig = FALSE]
              answer(status, error) ==
                  respQ' = Append(respQ,
                      [w |-> w, data |-> [id |-> m.id, status |-> status,
                                          results |-> <<>>, error |-> error]])
          IN Handled(w) /\ m.origin \in {"", SelfOrigin} =>
               /\ m.operation = "close" /\ ws.db.open =>
                     /\ answer("success", "")
                     /\ workers'[w] = [cleared EXCEPT !.inbox = Tail(@)]
               /\ m.operation = "close" /\ ~ws.db.open =>
                     /\ answer("error", NotOpened)
                     /\ workers'[w] = [ws EXCEPT !.inbox = Tail(@)]
                     /\ disk' = disk
               /\ m.operation \in Statements /\ ws = cleared =>
                     /\ answer("error", IF m.sql # "" THEN NotOpened
                                     ELSE SqlRequired(m.operation))
                     /\ workers'[w] = [ws EXCEPT !.inbox = Tail(@)]
                     /\ disk' = disk]_vars

\* C30 witness: an executor that closed its connection on request has
\* answered a later statement with 'Database not opened', and is in the
\* cleared state.
C30_Witness ==
    \E k \in DOMAIN respQ, p, q \in DOMAIN sent :
        /\ q < p
        /\ sent[q].operation = "close"
        /\ sent[p].operation \in {"query", "run"}
        /\ sent[p].w = sent[q].w /\ respQ[k].w = sent[p].w
        /\ respQ[k].data.id = sent[p].id
        /\ respQ[k].data.error = NotOpened
        /\ ~workers[sent[p].w].sqlite3
        /\ ~workers[sent[p].w].currentConfig

\* C31 as claimed: a delete request, handled with a connection open or with none,
\* leaves the executor without connection and its handles and configuration
\* as they were; where the backend can wipe, the handler waits for the wipe
\* and then answers success with the files gone, otherwise it answers success
\* at once and the disk is as before; a statement that follows a delete in
\* the same executor is answered with 'Database not opened'
\* and changes nothing.
C31_DeleteSucceedsThenNotOpened ==
    [][\A w \in DOMAIN workers :
          LET ws == workers[w]
              m == Head(ws.inbox)
              answer(id, status, error) ==
                  respQ' = Append(respQ,
                      [w |-> w, data |-> [id |-> id, status |-> status,
                                          results |-> <<>>, error |-> error]])
          IN /\ Handled(w) /\ m.origin \in {"", SelfOrigin}
                  /\ m.operation = "delete" =>
                   /\ disk' = disk
                   /\ IF HasWipeFiles(ws.PoolUtil)
                      THEN /\ respQ' = respQ
                           /\ \E h \in workers'[w].handlers \ ws.handlers :
                                 /\ h.id = m.id
                                 /\ workers'[w] =
                                      [ws EXCEPT !.inbox = Tail(@), !.db = NoDb,
                                                 !.handlers = @ \cup {h}]
                      ELSE /\ answer(m.id, "success", "")
                           /\ workers'[w] =
                                [ws EXCEPT !.inbox = Tail(@), !.db = NoDb]
             /\ \A h \in ws.handlers \ workers'[w].handlers :
                   (workers'[w].alive /\ h.operation = "delete") =>
                      /\ answer(h.id, "success", "")
                      /\ disk' = 0
                      /\ workers'[w] = [ws EXCEPT !.handlers = @ \ {h}]
                      /\ ~ws.db.open
             /\ ( /\ Handled(w) /\ m.origin \in {"", SelfOrigin}
                  /\ m.operation \in Statements
                  /\ \E q \in DOMAIN sent : /\ sent[q].operation = "delete"
                                             /\ sent[q].w = w
                                             /\ sent[q].id < m.id ) =>
                   /\ answer(m.id, "error", NotOpened)
                   /\ workers'[w] = [ws EXCEPT !.inbox = Tail(@)]
                   /\ disk' = disk]_vars

\* C31 as amended: a delete request, handled with a connection open or with none,
\* leaves the executor without connection and its handles and configuration
\* as they were; where the backend can wipe, the handler waits for the wipe
\* and then answers success with the files gone, otherwise it answers success
\* at once and the disk is as before; a statement that follows a delete in
\* the same executor is answered with 'Database not opened' when it
\* carries SQL text ('SQL required for <operation>' when it carries none)
\* and changes nothing.
C31_DeleteSucceedsThenNotOpenedOrSqlRequired ==
    [][\A w \in DOMAIN workers :
          LET ws == workers[w]
              m == Head(ws.inbox)
              answer(id, status, error) ==
                  respQ' = Append(respQ,
                      [w |-> w, data |-> [id |-> id, status |-> status,
                                          results |-> <<>>, error |-> error]])
          IN /\ Handled(w) /\ m.origin \in {"", SelfOrigin}
                  /\ m.operation = "delete" =>
                   /\ disk' = disk
                   /\ IF HasWipeFiles(ws.PoolUtil)
                      THEN /\ respQ' = respQ
                           /\ \E h \in workers'[w].handlers \ ws.handlers :
                                 /\ h.id = m.id
                                 /\ workers'[w] =
                                      [ws EXCEPT !.inbox = Tail(@), !.db = NoDb,
                                                 !.handlers = @ \cup {h}]
                      ELSE /\ answer(m.id, "success", "")
                           /\ workers'[w] =
                                [ws EXCEPT !.inbox = Tail(@), !.db = NoDb]
             /\ \A h \in ws.handlers \ workers'[w].handlers :
                   (workers'[w].alive /\ h.operation = "delete") =>
                      /\ answer(h.id, "success", "")
                      /\ disk' = 0
                      /\ workers'[w] = [ws EXCEPT !.handlers = @ \ {h}]
                      /\ ~ws.db.open
             /\ ( /\ Handled(w) /\ m.origin \in {"", SelfOrigin}
                  /\ m.operation \in Statements
                  /\ \E q \in DOMAIN sent : /\ sent[q].operation = "delete"
                                             /\ sent[q].w = w
                                             /\ sent[q].id < m.id ) =>
                   /\ answer(m.id, "error", IF m.sql # "" THEN NotOpened
                                      ELSE SqlRequired(m.operation))
                   /\ workers'[w] = [ws EXCEPT !.inbox = Tail(@)]
                   /\ disk' = disk]_vars

\* C31 witness: a second delete, handled when the first had already closed
\* the connection, has been answered with success.
C31_Witness ==
    \E k \in DOMAIN respQ, p, q \in DOMAIN sent :
        /\ q < p
        /\ sent[q].operation = "delete"
        /\ sent[p].operation = "delete"
        /\ sent[p].w = sent[q].w /\ respQ[k].w = sent[p].w
        /\ respQ[k].data.id = sent[p].id
        /\ respQ[k].data.status = "success"
        /\ ~workers[sent[p].w].db.open

\* C32: the init message carries, of the logging settings, filterSqlTrace
\* and nothing else, so no function; no other message carries a
\* configuration; and an executor whose engine is initialized has given it
\* console.log and console.error as print functions, whatever callbacks the
\* application supplied.
C32_NoFunctionCrossesTheChannel ==
    [][/\ Len(sent') = Len(sent) + 1 =>
             LET s == sent'[Len(sent')]
                 inbox == workers'[s.w].inbox
                 m == inbox[Len(inbox)]
             IN /\ inbox # <<>>
                /\ m.id = s.id
                /\ m.operation = s.operation
                /\ IF s.operation = "init"
                   THEN /\ m.config = {<<"filterSqlTrace", logging.filterSqlTrace>>}
                        /\ \A f \in m.config : f[2] \notin Functions
                   ELSE m.config = {}
       /\ \A w \in DOMAIN workers' :
             workers'[w].sqlite3 =>
                /\ workers'[w].print = "console.log"
                /\ workers'[w].printErr = "console.error"]_vars

\* C32 witness: the application supplied print and printErr callbacks and
\* switched the trace filter off, and the executor's engine is initialized.
C32_Witness ==
    /\ logging = [filterSqlTrace |-> "false", print |-> "userPrint",
                  printErr |-> "userPrintErr"]
    /\ \E p \in DOMAIN sent :
          /\ sent[p].operation = "init"
          /\ workers[sent[p].w].sqlite3
          /\ workers[sent[p].w].print = "console.log"

\* C33: at most one executor of the controller is alive, and it is the one
\* the controller holds; an executor is created only in a step that starts
\* with no worker held, the ready flag false and no readiness promise, and
\* the controller then holds the new one.
C33_AtMostOneLiveExecutor ==
    [][/\ Cardinality({w \in DOMAIN workers' : workers'[w].alive}) <= 1
       /\ \A w \in DOMAIN workers' : workers'[w].alive => worker' = w
       /\ Len(workers') # Len(workers) =>
             /\ worker = 0 /\ ~isReady /\ readyPromise = 0
             /\ \A w \in DOMAIN workers : ~workers[w].alive
             /\ Len(workers') = Len(workers) + 1
             /\ worker' = Len(workers')
             /\ readyPromise' # 0]_vars

\* C33 witness: a second executor is alive after the first was terminated.
C33_Witness ==
    /\ Len(workers) = 2
    /\ ~workers[1].alive
    /\ workers[2].alive
    /\ worker = 2

\* C34: while the ready flag is true the controller holds a live executor,
\* the init and the open sent to it were answered with success, and no
\* close() or delete() has come back from awaiting the response to a request
\* it sent to that executor.
C34_ReadyMeansOpenedAndNotClosed ==
    isReady =>
       /\ worker # 0
       /\ workers[worker].alive
       /\ \E a \in Inits : \E b \in Opens :
             /\ sent[a].w = worker /\ sent[b].w = worker
             /\ promises[a].state = "resolved"
             /\ promises[b].state = "resolved"
       /\ \A i \in DOMAIN calls :
             ~ ( /\ calls[i].kind \in {"close", "delete"}
                 /\ calls[i].own # 0
                 /\ sent[calls[i].own].w = worker
                 /\ calls[i].pc = "done" )

\* C35: a transaction() whose BEGIN IMMEDIATE request was rejected has sent
\* neither ROLLBACK nor COMMIT.
C35_RejectedBeginSendsNothingMore ==
    \A i \in DOMAIN calls :
       (/\ calls[i].kind = "transaction"
        /\ \E p \in SentBy(i, "BEGIN IMMEDIATE") :
              promises[p].state = "rejected")
          => SentBy(i, "ROLLBACK") = {} /\ SentBy(i, "COMMIT") = {}

\* C36 as claimed: when the body returned and the COMMIT request was rejected,
\* transaction() sends ROLLBACK once, after the COMMIT, and rejects
\* with the
\* error of the COMMIT.
C36_RejectsWithCommitError ==
    \A i \in DOMAIN calls :
       LET c == calls[i] IN
       \A k \in SentBy(i, "COMMIT") :
          (c.kind = "transaction" /\ c.returned
              /\ promises[k].state = "rejected") =>
             /\ Cardinality(SentBy(i, "ROLLBACK")) <= 1
             /\ \A r \in SentBy(i, "ROLLBACK") : k < r
             /\ c.pc = "done" =>
                   /\ c.outcome = "rejected"
                   /\ \E r \in SentBy(i, "ROLLBACK") :
                         c.error = promises[k].error

\* C36 as amended: when the body returned and the COMMIT request was rejected,
\* transaction() sends ROLLBACK once, after the COMMIT, and rejects
\* with the
\* error of the COMMIT when the ROLLBACK succeeds and with the ROLLBACK's own
\* error when it fails.
C36_RejectsWithCommitErrorIfRollbackSucceeds ==
    \A i \in DOMAIN calls :
       LET c == calls[i] IN
       \A k \in SentBy(i, "COMMIT") :
          (c.kind = "transaction" /\ c.returned
              /\ promises[k].state = "rejected") =>
             /\ Cardinality(SentBy(i, "ROLLBACK")) <= 1
             /\ \A r \in SentBy(i, "ROLLBACK") : k < r
             /\ c.pc = "done" =>
                   /\ c.outcome = "rejected"
                   /\ \E r \in SentBy(i, "ROLLBACK") :
                         \/ /\ promises[r].state = "resolved"
                            /\ c.error = promises[k].error
                         \/ /\ promises[r].state = "rejected"
                            /\ c.error = promises[r].error

\* C36 witness: a body returned, COMMIT was rejected, the ROLLBACK sent
\* after it succeeded and transaction() rejected with the COMMIT's error.
C36_Witness ==
    \E i \in DOMAIN calls :
       /\ calls[i].kind = "transaction" /\ calls[i].returned
       /\ calls[i].pc = "done" /\ calls[i].outcome = "rejected"
       /\ \E k \in SentBy(i, "COMMIT"), r \in SentBy(i, "ROLLBACK") :
             /\ promises[k].state = "rejected"
             /\ promises[r].state = "resolved"
             /\ calls[i].error = promises[k].error
====
